---- MODULE Spec2Model ----
(***************************************************************************)
(* The resumable concurrent download engine of core_functions/downloader:  *)
(* DownloadManager (manager.py), DownloadWorker (worker.py), DownloadDB    *)
(* (db.py) and DownloadProgress (status.py).                               *)
(*                                                                         *)
(* Threads.  Manager methods are called from one caller (UI) thread and    *)
(* each is one atomic action.  Every DownloadWorker runs on a pool thread  *)
(* and is cut into steps at its blocking points: start of run(), the HTTP  *)
(* request, the arrival of each chunk, the pause wait, the write of a      *)
(* chunk, the cancel test after the stream and the rename.  The callbacks  *)
(* a worker makes (callbacks["status"], set_size_text, db.upsert) are part *)
(* of the worker step that makes them.                                     *)
(*                                                                         *)
(* Units.  One byte of the model is one chunk of iter_content; the server  *)
(* file is FileSize chunks long.  The item with id i downloads the URL     *)
(* u_i, so its destination and temp paths are keyed by i.  Files follow    *)
(* POSIX rules: unlinking or renaming a path does not disturb a handle     *)
(* that is open on it.                                                     *)
(***************************************************************************)
EXTENDS Integers, Sequences, FiniteSets, TLC

\* ------------------------------------------------------------------ bounds
MaxId == 3
MaxBatch == 2
FileSize == 2
MaxWorkerObjs == 2
MaxOps == 4
MaxControlOps == 5
MaxRegistryOps == 5
MaxPoolOps == 4
MaxRecoveryOps == 4
MaxServerOps == 4
MaxAddOps == 4
MaxStatuses == 2

\* calls of the manager in a run of the engine under pause_all and resume_all
MaxGateOps == 5

\* calls of the manager in a run of the engine with the caller's callbacks interleaved
MaxRaceOps == 4

\* calls of the manager in a run of the engine over completed items
MaxTerminalOps == 4

\* calls of the manager in a run of the engine with paused workers in the pool
MaxSlotOps == 4

\* calls of the manager in a run of the engine beside a second manager
MaxSharedOps == 3
MaxSessionOps == 4
MaxFailures == 1
\* max_workers of DownloadManager.__init__ (a constructor argument)
max_workers == 2

Ids == 1..MaxId

\* the size of a path that does not exist (os.path.exists is false)
NoFile == -1

\* DownloadStatus (status.py)
PENDING == "PENDING"
DOWNLOADING == "DOWNLOADING"
PAUSED == "PAUSED"
CANCELLED == "CANCELLED"
COMPLETED == "COMPLETED"
ERROR == "ERROR"
DownloadStatus == {PENDING, DOWNLOADING, PAUSED, CANCELLED, COMPLETED, ERROR}

VARIABLES
    hasDb,          \* the manager was built with download_db, save_history and load_history
    maxThreadCount, \* QThreadPool.maxThreadCount, set by DownloadManager.__init__
    raised,         \* a call of the manager has raised an exception to its caller
    order,          \* keys of DownloadManager._downloads, in insertion order
    downloads,      \* DownloadManager._downloads: id -> item record
    mgr_pause_all,  \* DownloadManager._pause_all
    mgr_cancel_all, \* DownloadManager._cancel_all
    is_shutdown,    \* DownloadManager.is_shutdown
    workers,        \* every DownloadWorker object of this process, in creation order
    queue,          \* QThreadPool: runnables queued and not yet started
    tempFile,       \* size of <final_path>.part per item, NoFile when absent
    finalFile,      \* size of the destination file per item, NoFile when absent
    db,             \* rows of the download table
    opsLeft,        \* manager calls the environment may still make
    failsLeft,      \* transfer failures the environment may still inject
    emitted,        \* downloads_added, download_deleted, downloads_cleared,
                    \* status_changed and error signals emitted by the last step, in order
    model_ids,      \* DownloadListModel._download_ids of the model connected to the manager
    other,          \* a second DownloadManager of the process: the status of its item and
                    \* the position of that item's worker, 0 in the pool's queue
    session         \* SessionProgressBar: _total_files, _completed_files, whether
                    \* set_managers has connected it, and the signals queued for it

vars == <<hasDb, maxThreadCount, raised, order, downloads, mgr_pause_all, mgr_cancel_all, is_shutdown,
          workers, queue, tempFile, finalFile, db, opsLeft, failsLeft, emitted, model_ids,
          other, session>>

mgrFlags == <<mgr_pause_all, mgr_cancel_all, is_shutdown>>
files == <<tempFile, finalFile>>

\* ------------------------------------------------------------------ helpers
Range(s) == {s[i] : i \in DOMAIN s}

Max(S) == IF S = {} THEN 0 ELSE CHOOSE x \in S : \A y \in S : y <= x

\* an item record as add_new_downloads builds it; the g_ fields are history
\* variables of the verification, not fields of the program
NewItem ==
    [status |-> PENDING, worker |-> 0, downloaded_bytes |-> 0, total_bytes |-> 0,
     g_caSeen |-> FALSE, g_pauseAllAt |-> -1]

NoRow == [present |-> FALSE, status |-> PENDING, downloaded_bytes |-> 0, total_bytes |-> 0]

\* DownloadWorker.__init__
NewWorker(id) ==
    [item |-> id, pc |-> "queued",
     paused |-> FALSE, resume_requested |-> FALSE, cancelled |-> FALSE,
     woken |-> FALSE, downloaded |-> 0, total |-> 0, left |-> 0,
     fd |-> "none", append |-> FALSE,
     g_cancelSeen |-> FALSE, g_caLive |-> FALSE, g_renamed |-> FALSE,
     g_sincePause |-> -1, g_parked |-> FALSE, g_wroteAfterPark |-> FALSE,
     g_resumedAt |-> -1, g_cancelParked |-> FALSE, g_shutParked |-> FALSE,
     cb_pending |-> "",
     range_from |-> -1, g_received |-> 0,
     g_resumeAllParked |-> FALSE, g_resumedInAll |-> FALSE,
     g_deleteSeen |-> FALSE, g_cleared |-> FALSE, g_actedAfterClear |-> FALSE]

Wids == 1..Len(workers)

\* DownloadWorker.is_running: _running is set on entry of run() and cleared in its finally
is_running(wk) == wk.pc \notin {"queued", "dropped", "done"}

\* a worker that is queued in the pool or running
Live(wk) == wk.pc \notin {"dropped", "done"}

\* DownloadProgress.percentage
percentage(d, t) == IF t = 0 THEN 0 ELSE (d * 100) \div t

\* ------------------------------------------------------------------ store (db.py)
\* DownloadDB.update_status
update_status(d, id, s) ==
    IF d[id].present THEN [d EXCEPT ![id].status = s] ELSE d

\* DownloadManager._on_status: registry part and store part
on_status_reg(dls, ord, id, s) ==
    IF id \in Range(ord) THEN [dls EXCEPT ![id].status = s] ELSE dls

on_status_db(d, ord, id, s) ==
    IF id \in Range(ord) /\ hasDb THEN update_status(d, id, s) ELSE d

\* the signals of DownloadManager that carry the registry and the statuses
added(ids) == [kind |-> "added", ids |-> ids, status |-> ""]
deleted(id) == [kind |-> "deleted", ids |-> <<id>>, status |-> ""]
cleared == [kind |-> "cleared", ids |-> <<>>, status |-> ""]
status_changed(id, s) == [kind |-> "status", ids |-> <<id>>, status |-> s]
\* DownloadManager.error, emitted by _on_error for any id
error(id) == [kind |-> "error", ids |-> <<id>>, status |-> ""]
\* DownloadManager.download_finished, emitted by _on_finished for any id
finished(id) == [kind |-> "finished", ids |-> <<id>>, status |-> ""]

\* an _on_status that emits for ids that are not in the registry too
on_status_ev_unguarded(ord, id, s) == <<status_changed(id, s)>>

\* DownloadManager._on_status: the signal part
on_status_ev(ord, id, s) ==
    IF id \in Range(ord) THEN <<status_changed(id, s)>> ELSE <<>>

\* DownloadManager._on_status of each id of ids, in order
RECURSIVE on_status_evs(_, _, _)
on_status_evs(ord, ids, s) ==
    IF ids = <<>> THEN <<>>
    ELSE on_status_ev(ord, Head(ids), s) \o on_status_evs(ord, Tail(ids), s)

\* DownloadManager.get_downloads(status) as the sequence of matching ids, registry order
get_downloads(dls, ord, statuses) == SelectSeq(ord, LAMBDA id : dls[id].status \in statuses)

\* ------------------------------------------------------------------ session progress
\* SessionProgressBar.__init__: no manager is tracked
NoSession == [attached |-> FALSE, total_files |-> 0, completed_files |-> 0, inbox |-> <<>>]

\* SessionProgressBar.recalculate_totals
recalculate_totals(s, dls, ord) ==
    [s EXCEPT !.total_files = Len(get_downloads(dls, ord, {PENDING, DOWNLOADING, PAUSED}))]

\* SessionProgressBar.increment
increment(s) == [s EXCEPT !.completed_files = @ + 1]

\* SessionProgressBar.decrement
decrement(s) == [s EXCEPT !.completed_files = IF @ - 1 < 0 THEN 0 ELSE @ - 1]

\* SessionProgressBar.finish_session
finish_session(s) == [s EXCEPT !.completed_files = 0, !.total_files = 0]

\* SessionProgressBar._on_file_finished
on_file_finished(s) ==
    LET s1 == increment(s)
    IN  IF s1.completed_files >= s1.total_files THEN finish_session(s1) ELSE s1

\* SessionProgressBar._on_status_changed
on_status_changed(s, status) ==
    IF status \in {PAUSED, CANCELLED, ERROR} THEN decrement(s) ELSE s

\* the slot that signal e of the manager runs: download_finished and status_changed are
\* connected by set_managers, downloads_added, download_deleted and downloads_cleared
\* by the dialog to recalculate_totals, which reads the registry dls, ord
Slot(s, e, dls, ord) ==
    CASE e.kind = "finished" -> on_file_finished(s)
      [] e.kind = "status" -> on_status_changed(s, e.status)
      [] e.kind \in {"added", "deleted", "cleared"} -> recalculate_totals(s, dls, ord)
      [] OTHER -> s

RECURSIVE Slots(_, _, _, _)
Slots(s, evs, dls, ord) ==
    IF evs = <<>> THEN s ELSE Slots(Slot(s, Head(evs), dls, ord), Tail(evs), dls, ord)

\* the signals of evs whose slot changes the session
Effective(evs) ==
    SelectSeq(evs, LAMBDA e : \/ e.kind = "finished"
                              \/ e.kind = "status" /\ e.status \in {PAUSED, CANCELLED, ERROR})

\* a step of the caller's thread: the slots of the signals it emits run inside the emit
ObserveDirect ==
    session' = IF session.attached THEN Slots(session, emitted', downloads', order')
               ELSE session

\* a step of a worker's thread: the signals it emits are queued for the thread of the
\* progress bar (the slots of the other signals leave the session as it is)
ObserveQueued ==
    session' = IF session.attached
               THEN [session EXCEPT !.inbox = @ \o Effective(emitted')]
               ELSE session

\* DownloadManager.set_size_text
set_size_text(dls, ord, id, total) ==
    IF id \in Range(ord) THEN [dls EXCEPT ![id].total_bytes = total] ELSE dls

\* ------------------------------------------------------------------ files
\* every handle open on the temp path of id loses its path
UnlinkTemp(ws, id) ==
    [w \in DOMAIN ws |->
        IF ws[w].item = id /\ ws[w].fd = "temp" THEN [ws[w] EXCEPT !.fd = "none"] ELSE ws[w]]

\* every handle open on the destination path of id loses its path
UnlinkFinal(ws, id) ==
    [w \in DOMAIN ws |->
        IF ws[w].item = id /\ ws[w].fd = "final" THEN [ws[w] EXCEPT !.fd = "none"] ELSE ws[w]]

\* os.replace(temp, final): the handles open on the temp file follow it
RenameTemp(ws, id) ==
    [w \in DOMAIN ws |->
        IF ws[w].item = id /\ ws[w].fd = "temp" THEN [ws[w] EXCEPT !.fd = "final"]
        ELSE IF ws[w].item = id /\ ws[w].fd = "final" THEN [ws[w] EXCEPT !.fd = "none"]
        ELSE ws[w]]

\* an open that always truncates
file_mode_alwaysTruncates(downloaded_bytes) == "wb"

\* _download_file line 61: file_mode = "ab" if downloaded_bytes > 0 else "wb"
file_mode(downloaded_bytes) == IF downloaded_bytes > 0 THEN "ab" ELSE "wb"

\* open(temp_path, mode) on a file of the given size (0 when it does not exist): "ab"
\* keeps the content, "wb" creates or truncates the file
SizeAfterOpen(mode, size) == IF mode = "ab" THEN size ELSE 0

\* f.write(chunk) on a file of the given size: a handle opened "ab" appends, a handle
\* opened "wb" writes at its own position, which is the count it has written so far
SizeAfterWrite(wk, size) ==
    IF wk.append THEN size + 1
    ELSE IF wk.downloaded + 1 > size THEN wk.downloaded + 1 ELSE size

\* ------------------------------------------------------------------ Init
\* the second manager has added nothing
NoOther == [status |-> "", pc |-> "none"]

InitPool(stores, ops, counts) ==
    /\ hasDb \in stores
    /\ maxThreadCount \in counts
    /\ raised = FALSE
    /\ order = <<>>
    /\ downloads = [i \in Ids |-> NewItem]
    /\ mgr_pause_all = FALSE
    /\ mgr_cancel_all = FALSE
    /\ is_shutdown = FALSE
    /\ workers = <<>>
    /\ queue = <<>>
    /\ tempFile = [i \in Ids |-> NoFile]
    /\ finalFile = [i \in Ids |-> NoFile]
    /\ db = [i \in Ids |-> NoRow]
    /\ opsLeft = ops
    /\ failsLeft = MaxFailures
    /\ emitted = <<>>
    /\ model_ids = <<>>
    /\ other = NoOther
    /\ session = NoSession

\* a manager built with max_workers
InitWith(stores, ops) == InitPool(stores, ops, {max_workers})

Init == InitWith(BOOLEAN, MaxOps)

\* ------------------------------------------------------------------ add
RegKeysAfter(ord, id) == IF id \in Range(ord) THEN ord ELSE Append(ord, id)

RECURSIVE RegKeysAfterAll(_, _)
RegKeysAfterAll(ord, ids) ==
    IF ids = <<>> THEN ord ELSE RegKeysAfterAll(RegKeysAfter(ord, Head(ids)), Tail(ids))

\* add_new_downloads, lines 108-113 without generated ids:
\* download_id = len(self._downloads) + 1 + index, the registry growing as the loop goes
RECURSIVE local_ids(_, _, _)
local_ids(ord, index, n) ==
    IF index = n THEN <<>>
    ELSE LET download_id == Len(ord) + 1 + index
         IN  <<download_id>> \o local_ids(RegKeysAfter(ord, download_id), index + 1, n)

\* DownloadDB.upsert_many on records without an id: one INSERT per record, the
\* integer primary key of each being one more than the largest key of the table
upsert_many_ids(d, n) ==
    LET top == Max({i \in Ids : d[i].present}) IN [k \in 1..n |-> top + k]

\* an upsert_many that does not roll back: the rows flushed before the failure stay
add_prepared_noRollback(n, upsert_fails) ==
    /\ opsLeft > 0
    /\ upsert_fails => hasDb
    /\ LET generated_ids == IF hasDb /\ ~upsert_fails THEN upsert_many_ids(db, n) ELSE <<>>
           ids == IF generated_ids # <<>> THEN generated_ids ELSE local_ids(order, 0, n)
       IN  /\ \A k \in 1..n : ids[k] \in Ids
           /\ order' = RegKeysAfterAll(order, ids)
           /\ downloads' = [i \in Ids |-> IF i \in Range(ids) THEN NewItem ELSE downloads[i]]
           /\ db' = IF hasDb
                    THEN [i \in Ids |-> IF i \in Range(ids)
                                        THEN [present |-> TRUE, status |-> PENDING,
                                              downloaded_bytes |-> 0, total_bytes |-> 0]
                                        ELSE db[i]]
                    ELSE db
           \* downloads_added -> DownloadListModel.on_downloads_added
           /\ emitted' = <<added(ids)>>
           /\ model_ids' = model_ids \o ids
    /\ opsLeft' = opsLeft - 1
    /\ UNCHANGED <<hasDb, maxThreadCount, raised, other, mgrFlags, workers, queue, files, failsLeft>>
    /\ ObserveDirect

\* DownloadManager.add_new_downloads from line 101 on, with n prepared items.
\* upsert_fails: upsert_many meets an SQLAlchemyError, rolls the batch back and returns []
add_prepared(n, upsert_fails) ==
    /\ opsLeft > 0
    /\ upsert_fails => hasDb
    /\ LET generated_ids == IF hasDb /\ ~upsert_fails THEN upsert_many_ids(db, n) ELSE <<>>
           ids == IF generated_ids # <<>> THEN generated_ids ELSE local_ids(order, 0, n)
       IN  /\ \A k \in 1..n : ids[k] \in Ids
           /\ order' = RegKeysAfterAll(order, ids)
           /\ downloads' = [i \in Ids |-> IF i \in Range(ids) THEN NewItem ELSE downloads[i]]
           /\ db' = IF hasDb /\ ~upsert_fails
                    THEN [i \in Ids |-> IF i \in Range(ids)
                                        THEN [present |-> TRUE, status |-> PENDING,
                                              downloaded_bytes |-> 0, total_bytes |-> 0]
                                        ELSE db[i]]
                    ELSE db
           \* downloads_added -> DownloadListModel.on_downloads_added
           /\ emitted' = <<added(ids)>>
           /\ model_ids' = model_ids \o ids
    /\ opsLeft' = opsLeft - 1
    /\ UNCHANGED <<hasDb, maxThreadCount, raised, other, mgrFlags, workers, queue, files, failsLeft>>
    /\ ObserveDirect

\* DownloadManager.add_new_downloads with n requests (add_download is n = 1)
add_new_downloads(n) == add_prepared(n, FALSE)

\* the arguments of add_new_downloads: a value that is or is not a list, whose entries
\* are a mapping with a url ("record"), a mapping without one ("no_url") or a value that
\* is no mapping ("not_mapping")
Entries == {"record", "no_url", "not_mapping"}
Inputs ==
    {[is_list |-> FALSE, entries |-> <<>>]}
        \cup {[is_list |-> TRUE, entries |-> e] :
                  e \in UNION {[1..n -> Entries] : n \in 1..MaxBatch}}

\* a first loop that registers each item as it is prepared: the entries before the
\* first bad one are processed
items_to_process_upToBad(download_items) ==
    LET e == download_items.entries
        bad == {k \in DOMAIN e : e[k] # "record"}
    IN  IF ~download_items.is_list THEN [raises |-> TRUE, n |-> 0]
        ELSE IF bad # {} THEN [raises |-> TRUE, n |-> Max({k \in DOMAIN e : \A j \in bad : k < j})]
        ELSE [raises |-> FALSE, n |-> Len(e)]

\* add_new_downloads lines 82-99: len() and the isinstance test raise for a value that
\* is not a list; the first loop reads entry["url"] and unpacks **entry for every entry,
\* and raises at the first that has no url or is no mapping, before anything is
\* persisted or registered
items_to_process(download_items) ==
    LET e == download_items.entries
    IN  IF ~download_items.is_list THEN [raises |-> TRUE, n |-> 0]
        ELSE IF \E k \in DOMAIN e : e[k] # "record" THEN [raises |-> TRUE, n |-> 0]
        ELSE [raises |-> FALSE, n |-> Len(e)]

\* DownloadManager.add_new_downloads(download_items, folder)
add_new_downloads_of(download_items, upsert_fails) ==
    LET p == items_to_process(download_items)
    IN  IF p.n > 0
        THEN add_prepared(p.n, upsert_fails)
        ELSE /\ opsLeft > 0
             /\ ~upsert_fails
             /\ opsLeft' = opsLeft - 1
             /\ raised' = (raised \/ p.raises)
             /\ emitted' = <<>>
             /\ UNCHANGED <<hasDb, maxThreadCount, other, order, downloads, mgrFlags, workers, queue,
                            files, db, failsLeft, model_ids>>
             /\ ObserveDirect

\* ------------------------------------------------------------------ start
\* DownloadManager._start_download for each id of ids (all in the registry), in order
RECURSIVE start_each(_, _, _, _)
start_each(ids, ws, q, dls) ==
    IF ids = <<>> THEN [workers |-> ws, queue |-> q, downloads |-> dls]
    ELSE LET id == Head(ids)
             wid == Len(ws) + 1
         IN  start_each(Tail(ids), Append(ws, NewWorker(id)), Append(q, wid),
                        [dls EXCEPT ![id].worker = wid])

\* DownloadManager.start without its status test: every item with no running worker
StartSet_anyStatus(dls, ws, ord) ==
    SelectSeq(ord, LAMBDA id :
        ~(dls[id].worker # 0 /\ is_running(ws[dls[id].worker])))

\* the items DownloadManager.start dispatches: PENDING and no worker that is_running()
StartSet(dls, ws, ord) ==
    SelectSeq(ord, LAMBDA id :
        /\ dls[id].status = PENDING
        /\ ~(dls[id].worker # 0 /\ is_running(ws[dls[id].worker])))

\* DownloadManager.start
start ==
    /\ opsLeft > 0
    /\ LET ids == StartSet(downloads, workers, order)
           r == start_each(ids, workers, queue, downloads)
       IN  /\ Len(workers) + Len(ids) <= MaxWorkerObjs
           /\ workers' = r.workers
           /\ queue' = r.queue
           /\ downloads' = r.downloads
    /\ opsLeft' = opsLeft - 1
    /\ emitted' = <<>>
    /\ UNCHANGED <<hasDb, maxThreadCount, raised, other, order, mgrFlags, files, db, failsLeft, model_ids>>
    /\ ObserveDirect

\* ------------------------------------------------------------------ worker
Running == {w \in Wids : is_running(workers[w])}

\* the pool threads held by the second manager's worker
OtherRunning == IF other.pc = "running" THEN 1 ELSE 0

\* QThreadPool.start hands a runnable to a thread at once while fewer than
\* maxThreadCount threads are active and queues it otherwise: the oldest entries of
\* queue, as many as there are free threads, are already with a thread (their run() has
\* not begun) and pool.clear() cannot remove them
Taken ==
    LET free == maxThreadCount - (Cardinality(Running) + OtherRunning)
    IN  SubSeq(queue, 1, IF free < Len(queue) THEN (IF free < 0 THEN 0 ELSE free)
                         ELSE Len(queue))

\* the worker ends: its handles are closed, run() clears _running
Ended(wk) == [wk EXCEPT !.pc = "done", !.fd = "none", !.woken = FALSE, !.g_resumedAt = -1,
               !.g_resumeAllParked = FALSE, !.g_resumedInAll = FALSE]

\* a pool that starts the oldest queued runnable whether or not a thread is free
PoolRun_unbounded(w) ==
    /\ queue # <<>>
    /\ w = Head(queue)
    /\ queue' = Tail(queue)
    /\ workers' = [workers EXCEPT ![w].pc = "init"]
    /\ emitted' = <<>>
    /\ UNCHANGED <<hasDb, maxThreadCount, raised, other, order, downloads, mgrFlags, files, db, opsLeft, failsLeft, model_ids>>
    /\ ObserveQueued

\* QThreadPool starts the oldest queued runnable when a thread is free; run() sets _running
PoolRun(w) ==
    /\ queue # <<>>
    /\ w = Head(queue)
    /\ Cardinality(Running) + OtherRunning < maxThreadCount
    /\ queue' = Tail(queue)
    /\ workers' = [workers EXCEPT ![w].pc = "init"]
    /\ emitted' = <<>>
    /\ UNCHANGED <<hasDb, maxThreadCount, raised, other, order, downloads, mgrFlags, files, db, opsLeft, failsLeft, model_ids>>
    /\ ObserveQueued

\* DownloadWorker.run, the except branch: status ERROR, then the error callback
RaiseInRun(w, ws) ==
    /\ workers' = [ws EXCEPT ![w] = Ended(ws[w])]
    /\ downloads' = on_status_reg(downloads, order, ws[w].item, ERROR)
    /\ db' = on_status_db(db, order, ws[w].item, ERROR)
    /\ emitted' = on_status_ev(order, ws[w].item, ERROR) \o <<error(ws[w].item)>>

\* _download_file that opens the temp file as the code does but sends no Range header:
\* the server answers with the whole file
Request_noRangeHeader(w) ==
    /\ workers[w].pc = "init"
    /\ LET id == workers[w].item
           downloaded_bytes == IF tempFile[id] # NoFile THEN tempFile[id] ELSE 0
           content_length == FileSize
           total_bytes == downloaded_bytes + content_length
       IN  IF downloaded_bytes >= FileSize
           THEN /\ RaiseInRun(w, workers)
                /\ UNCHANGED files
           ELSE /\ workers' = [workers EXCEPT ![w].pc = "iter",
                                              ![w].downloaded = downloaded_bytes,
                                              ![w].total = total_bytes,
                                              ![w].left = content_length,
                                              ![w].fd = "temp",
                                              ![w].range_from = -1,
                                              ![w].append = (file_mode(downloaded_bytes) = "ab")]
                /\ downloads' = on_status_reg(set_size_text(downloads, order, id, total_bytes),
                                              order, id, DOWNLOADING)
                /\ db' = on_status_db(db, order, id, DOWNLOADING)
                /\ emitted' = on_status_ev(order, id, DOWNLOADING)
                \* "ab" keeps an existing file, "wb" creates or truncates it
                /\ tempFile' = [tempFile EXCEPT ![id] =
                                   SizeAfterOpen(file_mode(downloaded_bytes), downloaded_bytes)]
                /\ UNCHANGED finalFile
    /\ UNCHANGED <<hasDb, maxThreadCount, raised, other, order, mgrFlags, queue, opsLeft, failsLeft, model_ids>>
    /\ ObserveQueued

\* _download_file lines 57-81: resume offset, GET (with Range when offset > 0),
\* raise_for_status, total_bytes, set_size_text, status DOWNLOADING, open of the temp file.
\* A Range request at or past the end of the file is answered 416.
Request(w) ==
    /\ workers[w].pc = "init"
    /\ LET id == workers[w].item
           downloaded_bytes == IF tempFile[id] # NoFile THEN tempFile[id] ELSE 0
           content_length == FileSize - downloaded_bytes
           total_bytes == downloaded_bytes + content_length
       IN  IF downloaded_bytes >= FileSize
           THEN /\ RaiseInRun(w, workers)
                /\ UNCHANGED files
           ELSE /\ workers' = [workers EXCEPT ![w].pc = "iter",
                                              ![w].downloaded = downloaded_bytes,
                                              ![w].total = total_bytes,
                                              ![w].left = content_length,
                                              ![w].fd = "temp",
                                              ![w].range_from = IF downloaded_bytes > 0
                                                               THEN downloaded_bytes ELSE -1,
                                              ![w].append = (file_mode(downloaded_bytes) = "ab")]
                /\ downloads' = on_status_reg(set_size_text(downloads, order, id, total_bytes),
                                              order, id, DOWNLOADING)
                /\ db' = on_status_db(db, order, id, DOWNLOADING)
                /\ emitted' = on_status_ev(order, id, DOWNLOADING)
                \* "ab" keeps an existing file, "wb" creates or truncates it
                /\ tempFile' = [tempFile EXCEPT ![id] =
                                   SizeAfterOpen(file_mode(downloaded_bytes), downloaded_bytes)]
                /\ UNCHANGED finalFile
    /\ UNCHANGED <<hasDb, maxThreadCount, raised, other, order, mgrFlags, queue, opsLeft, failsLeft, model_ids>>
    /\ ObserveQueued

\* _download_file lines 57-81 when the response carries no content-length header (a
\* chunked response): int(r.headers.get("content-length", 0)) is 0, so total_bytes is the
\* resume offset, and the body still holds the rest of the file
RequestChunked(w) ==
    /\ workers[w].pc = "init"
    /\ LET id == workers[w].item
           downloaded_bytes == IF tempFile[id] # NoFile THEN tempFile[id] ELSE 0
           content_length == 0
           total_bytes == downloaded_bytes + content_length
       IN  /\ downloaded_bytes < FileSize
           /\ workers' = [workers EXCEPT ![w].pc = "iter",
                                         ![w].downloaded = downloaded_bytes,
                                         ![w].total = total_bytes,
                                         ![w].left = FileSize - downloaded_bytes,
                                         ![w].fd = "temp",
                                         ![w].range_from = IF downloaded_bytes > 0
                                                          THEN downloaded_bytes ELSE -1,
                                         ![w].append = (file_mode(downloaded_bytes) = "ab")]
           /\ downloads' = on_status_reg(set_size_text(downloads, order, id, total_bytes),
                                         order, id, DOWNLOADING)
           /\ db' = on_status_db(db, order, id, DOWNLOADING)
           /\ emitted' = on_status_ev(order, id, DOWNLOADING)
           /\ tempFile' = [tempFile EXCEPT ![id] =
                                   SizeAfterOpen(file_mode(downloaded_bytes), downloaded_bytes)]
           /\ UNCHANGED finalFile
    /\ UNCHANGED <<hasDb, maxThreadCount, raised, other, order, mgrFlags, queue, opsLeft, failsLeft, model_ids>>
    /\ ObserveQueued

\* a failure handler that removes the temp file, as the cancel path of other engines does
WorkerFail_unlinksTemp(w) ==
    /\ failsLeft > 0
    /\ \/ workers[w].pc = "init"
       \/ workers[w].pc = "iter" /\ workers[w].left > 0
    /\ RaiseInRun(w, workers)
    /\ failsLeft' = failsLeft - 1
    /\ tempFile' = [tempFile EXCEPT ![workers[w].item] = NoFile]
    /\ UNCHANGED <<hasDb, maxThreadCount, raised, other, order, mgrFlags, queue, finalFile, opsLeft, model_ids>>
    /\ ObserveQueued

\* the request or the read of a chunk fails (non-success answer, network error, timeout)
WorkerFail(w) ==
    /\ failsLeft > 0
    /\ \/ workers[w].pc = "init"
       \/ workers[w].pc = "iter" /\ workers[w].left > 0
    /\ RaiseInRun(w, workers)
    /\ failsLeft' = failsLeft - 1
    /\ UNCHANGED <<hasDb, maxThreadCount, raised, other, order, mgrFlags, queue, files, opsLeft, model_ids>>
    /\ ObserveQueued

\* a pause loop that tests the manager-wide flag only
PauseGate_globalFlagOnly(wk) ==
    IF mgr_pause_all
    THEN IF is_shutdown \/ wk.cancelled \/ mgr_cancel_all
         THEN Ended(wk)
         ELSE [wk EXCEPT !.pc = "wait", !.woken = FALSE,
                         !.g_parked = (wk.g_sincePause >= 0)]
    ELSE [wk EXCEPT !.pc = "write", !.woken = FALSE, !.resume_requested = FALSE,
                    !.g_resumeAllParked = FALSE, !.g_resumedInAll = FALSE]

\* _download_file lines 89-101, one evaluation of the pause loop by worker record wk
PauseGate(wk) ==
    IF wk.paused \/ mgr_pause_all
    THEN IF is_shutdown \/ wk.cancelled \/ mgr_cancel_all
         THEN Ended(wk)
         ELSE [wk EXCEPT !.pc = "wait", !.woken = FALSE,
                         !.g_parked = (wk.g_sincePause >= 0)]
    ELSE [wk EXCEPT !.pc = "write", !.woken = FALSE, !.resume_requested = FALSE,
                    !.g_resumeAllParked = FALSE, !.g_resumedInAll = FALSE]

\* _download_file lines 82-101: the next chunk arrives (or the stream ends), the cancel
\* test, then the pause loop
NextChunk(w) ==
    /\ workers[w].pc = "iter"
    /\ LET wk == workers[w]
           id == wk.item
       IN  IF wk.left = 0
           THEN /\ workers' = [workers EXCEPT ![w].pc = "final", ![w].fd = "none"]
                /\ emitted' = <<>>
                /\ UNCHANGED <<downloads, db>>
           ELSE IF wk.cancelled \/ mgr_cancel_all
           THEN /\ workers' = [workers EXCEPT ![w] = Ended(wk)]
                /\ downloads' = on_status_reg(downloads, order, id, CANCELLED)
                /\ db' = on_status_db(db, order, id, CANCELLED)
                /\ emitted' = on_status_ev(order, id, CANCELLED)
           ELSE /\ workers' = [workers EXCEPT ![w] = PauseGate(wk)]
                /\ emitted' = <<>>
                /\ UNCHANGED <<downloads, db>>
    /\ UNCHANGED <<hasDb, maxThreadCount, raised, other, order, mgrFlags, queue, files, opsLeft, failsLeft, model_ids>>
    /\ ObserveQueued

\* QWaitCondition.wait returns after a wakeAll: the pause loop is evaluated again
WakeUp(w) ==
    /\ workers[w].pc = "wait"
    /\ workers[w].woken
    /\ workers' = [workers EXCEPT ![w] = PauseGate(workers[w])]
    /\ emitted' = <<>>
    /\ UNCHANGED <<hasDb, maxThreadCount, raised, other, order, downloads, mgrFlags, queue, files, db, opsLeft, failsLeft,
                   model_ids>>
    /\ ObserveQueued

\* a completion that announces finished before the status COMPLETED
completion_events_finishedFirst(ord, id) ==
    <<finished(id)>> \o on_status_ev(ord, id, COMPLETED)

\* _download_file lines 123-124 after os.replace: the status callback with COMPLETED,
\* then the finished callback
completion_events(ord, id) ==
    on_status_ev(ord, id, COMPLETED) \o <<finished(id)>>

\* _download_file lines 103-119: write the chunk; when the percentage moved or the
\* transfer is complete: progress, status DOWNLOADING, db.upsert of the item.
\* upsert builds a new row from {**self.item, ...} when the row is missing; the item
\* carries the keys "worker" and "size_text", which the table's constructor rejects
\* with a TypeError that upsert does not catch.
WriteChunk(w) ==
    /\ workers[w].pc = "write"
    /\ LET wk == workers[w]
           id == wk.item
           downloaded_bytes == wk.downloaded + 1
           report == \/ percentage(downloaded_bytes, wk.total)
                         - percentage(wk.downloaded, wk.total) >= 1
                     \/ downloaded_bytes = wk.total
           wk2 == [wk EXCEPT !.pc = "iter", !.downloaded = downloaded_bytes,
                             !.left = @ - 1,
                             !.g_received = @ + 1,
                             !.g_sincePause = IF @ >= 0 THEN @ + 1 ELSE @,
                             !.g_wroteAfterPark = @ \/ (wk.g_sincePause >= 0 /\ wk.g_parked),
                             !.g_actedAfterClear = @ \/ wk.g_cleared]
           ws2 == [workers EXCEPT ![w] = wk2]
       IN  /\ tempFile' = IF wk.fd = "temp"
                          THEN [tempFile EXCEPT ![id] = SizeAfterWrite(wk, @)] ELSE tempFile
           /\ finalFile' = IF wk.fd = "final"
                           THEN [finalFile EXCEPT ![id] = SizeAfterWrite(wk, @)] ELSE finalFile
           /\ IF ~report
              THEN /\ workers' = ws2
                   /\ emitted' = <<>>
                   /\ UNCHANGED <<downloads, db>>
              ELSE IF hasDb /\ ~db[id].present
              THEN /\ workers' = [ws2 EXCEPT ![w] = Ended(wk2)]
                   /\ downloads' = on_status_reg(downloads, order, id, ERROR)
                   /\ db' = db
                   /\ emitted' = on_status_ev(order, id, DOWNLOADING)
                                    \o on_status_ev(order, id, ERROR) \o <<error(id)>>
              ELSE /\ workers' = ws2
                   /\ downloads' = on_status_reg(downloads, order, id, DOWNLOADING)
                   /\ emitted' = on_status_ev(order, id, DOWNLOADING)
                   /\ db' = IF hasDb
                            THEN [db EXCEPT ![id].status = DOWNLOADING,
                                            ![id].downloaded_bytes = downloaded_bytes,
                                            ![id].total_bytes = wk.total]
                            ELSE db
    /\ UNCHANGED <<hasDb, maxThreadCount, raised, other, order, mgrFlags, queue, opsLeft, failsLeft, model_ids>>
    /\ ObserveQueued

\* _download_file line 121: the cancel test after the stream
FinalCheck(w) ==
    /\ workers[w].pc = "final"
    /\ workers' = [workers EXCEPT ![w] =
                      IF ~workers[w].cancelled /\ ~mgr_cancel_all
                      THEN [workers[w] EXCEPT !.pc = "replace"]
                      ELSE Ended(workers[w])]
    /\ emitted' = <<>>
    /\ UNCHANGED <<hasDb, maxThreadCount, raised, other, order, downloads, mgrFlags, queue, files, db, opsLeft, failsLeft,
                   model_ids>>
    /\ ObserveQueued

\* _download_file lines 122-135: os.replace (FileNotFoundError when the temp file is
\* gone), status COMPLETED, finished, db.upsert of the item
Replace(w) ==
    /\ workers[w].pc = "replace"
    /\ LET wk == workers[w]
           id == wk.item
       IN  IF tempFile[id] = NoFile
           THEN /\ RaiseInRun(w, workers)
                /\ UNCHANGED files
           ELSE LET ws2 == RenameTemp(workers, id)
                    ws3 == [ws2 EXCEPT ![w] = [Ended(ws2[w]) EXCEPT !.g_renamed = TRUE,
                                                                     !.g_actedAfterClear =
                                                                         @ \/ wk.g_cleared]]
                IN  /\ finalFile' = [finalFile EXCEPT ![id] = tempFile[id]]
                    /\ tempFile' = [tempFile EXCEPT ![id] = NoFile]
                    /\ workers' = ws3
                    /\ IF hasDb /\ ~db[id].present
                       THEN /\ downloads' = on_status_reg(downloads, order, id, ERROR)
                            /\ db' = db
                            /\ emitted' = completion_events(order, id)
                                             \o on_status_ev(order, id, ERROR) \o <<error(id)>>
                       ELSE /\ downloads' = on_status_reg(downloads, order, id, COMPLETED)
                            /\ emitted' = completion_events(order, id)
                            /\ db' = IF hasDb
                                     THEN [db EXCEPT ![id].status = COMPLETED,
                                                     ![id].downloaded_bytes = wk.downloaded,
                                                     ![id].total_bytes = wk.total]
                                     ELSE db
    /\ UNCHANGED <<hasDb, maxThreadCount, raised, other, order, mgrFlags, queue, opsLeft, failsLeft, model_ids>>
    /\ ObserveQueued

WorkerStep(w) ==
    /\ w \in Wids
    /\ \/ PoolRun(w)
       \/ Request(w)
       \/ NextChunk(w)
       \/ WakeUp(w)
       \/ WriteChunk(w)
       \/ FinalCheck(w)
       \/ Replace(w)

\* ------------------------------------------------------------------ worker controls
Streaming(wk) == wk.pc \in {"iter", "wait", "write"}

\* DownloadWorker.pause, the flag (the status callback is in the caller below)
w_pause(wk) ==
    [wk EXCEPT !.paused = TRUE,
               !.g_sincePause = IF @ < 0 /\ Live(wk) THEN 0 ELSE @,
               !.g_parked = IF wk.g_sincePause < 0 THEN wk.pc = "wait" ELSE @,
               !.g_resumedAt = -1,
               !.g_resumeAllParked = FALSE, !.g_resumedInAll = FALSE]

\* a resume that clears the flag and does not call wakeAll
w_resume_noWake(wk) ==
    [wk EXCEPT !.paused = FALSE, !.resume_requested = TRUE,
               !.g_sincePause = -1, !.g_parked = FALSE, !.g_cancelParked = FALSE,
               \* g_resumedInAll: the worker was in the pause wait, pause_all in force
               !.g_resumedInAll = (wk.pc = "wait" /\ mgr_pause_all),
               !.g_resumedAt = IF wk.paused /\ Streaming(wk) /\ wk.g_sincePause >= 0
                                  /\ ~mgr_pause_all
                               THEN wk.downloaded ELSE @]

\* DownloadWorker.resume, the flags and wakeAll
w_resume(wk) ==
    [wk EXCEPT !.paused = FALSE, !.resume_requested = TRUE,
               !.woken = @ \/ wk.pc = "wait",
               !.g_sincePause = -1, !.g_parked = FALSE, !.g_cancelParked = FALSE,
               \* g_resumedInAll: the worker was in the pause wait, pause_all in force
               !.g_resumedInAll = (wk.pc = "wait" /\ mgr_pause_all),
               !.g_resumedAt = IF wk.paused /\ Streaming(wk) /\ wk.g_sincePause >= 0
                                  /\ ~mgr_pause_all
                               THEN wk.downloaded ELSE @]

\* a cancel that sets the flag and does not call wakeAll
w_cancel_noWake(wk) ==
    [wk EXCEPT !.cancelled = TRUE,
               !.g_cancelSeen = @ \/ Live(wk),
               !.g_cancelParked = @ \/ (wk.pc = "wait" /\ ~wk.woken
                                           /\ (wk.paused \/ mgr_pause_all)),
               !.g_sincePause = -1, !.g_parked = FALSE, !.g_resumedAt = -1,
               !.g_resumeAllParked = FALSE, !.g_resumedInAll = FALSE]

\* DownloadWorker.cancel, the flag and wakeAll (delete_temp_file and the status
\* callback are in the caller below)
w_cancel(wk) ==
    [wk EXCEPT !.cancelled = TRUE,
               !.woken = @ \/ wk.pc = "wait",
               !.g_cancelSeen = @ \/ Live(wk),
               !.g_cancelParked = @ \/ (wk.pc = "wait" /\ ~wk.woken
                                           /\ (wk.paused \/ mgr_pause_all)),
               !.g_sincePause = -1, !.g_parked = FALSE, !.g_resumedAt = -1,
               !.g_resumeAllParked = FALSE, !.g_resumedInAll = FALSE]

\* DownloadWorker.shutdown
w_shutdown(wk) ==
    IF is_running(wk)
    THEN [wk EXCEPT !.cancelled = TRUE, !.woken = @ \/ wk.pc = "wait",
                    !.g_sincePause = -1, !.g_parked = FALSE, !.g_resumedAt = -1,
               !.g_resumeAllParked = FALSE, !.g_resumedInAll = FALSE]
    ELSE wk

WorkerOf(dls, ord, id) == IF id \in Range(ord) THEN dls[id].worker ELSE 0

\* DownloadManager.pause
pause(id) ==
    /\ opsLeft > 0
    /\ LET w == WorkerOf(downloads, order, id)
       IN  IF w # 0
           THEN /\ workers' = [workers EXCEPT ![w] = w_pause(@)]
                /\ downloads' = on_status_reg(downloads, order, id, PAUSED)
                /\ db' = on_status_db(db, order, id, PAUSED)
                /\ emitted' = on_status_ev(order, id, PAUSED)
           ELSE /\ emitted' = <<>>
                /\ UNCHANGED <<workers, downloads, db>>
    /\ opsLeft' = opsLeft - 1
    /\ UNCHANGED <<hasDb, maxThreadCount, raised, other, order, mgrFlags, queue, files, failsLeft, model_ids>>
    /\ ObserveDirect

\* DownloadManager.resume
resume(id) ==
    /\ opsLeft > 0
    /\ LET w == WorkerOf(downloads, order, id)
       IN  IF w # 0
           THEN /\ workers' = [workers EXCEPT ![w] = w_resume(@)]
                /\ downloads' = on_status_reg(downloads, order, id, DOWNLOADING)
                /\ db' = on_status_db(db, order, id, DOWNLOADING)
                /\ emitted' = on_status_ev(order, id, DOWNLOADING)
                /\ UNCHANGED queue
           ELSE IF id \in Range(order)
           THEN LET r == start_each(<<id>>, workers, queue, downloads)
                IN  /\ Len(workers) < MaxWorkerObjs
                    /\ workers' = r.workers
                    /\ queue' = r.queue
                    /\ downloads' = r.downloads
                    /\ emitted' = <<>>
                    /\ UNCHANGED db
           ELSE /\ emitted' = <<>>
                /\ UNCHANGED <<workers, downloads, db, queue>>
    /\ opsLeft' = opsLeft - 1
    /\ UNCHANGED <<hasDb, maxThreadCount, raised, other, order, mgrFlags, files, failsLeft, model_ids>>
    /\ ObserveDirect

\* DownloadManager.cancel -> DownloadWorker.cancel: flag, wakeAll, delete_temp_file,
\* status CANCELLED
cancel(id) ==
    /\ opsLeft > 0
    /\ LET w == WorkerOf(downloads, order, id)
       IN  IF w # 0
           THEN /\ workers' = UnlinkTemp([workers EXCEPT ![w] = w_cancel(@)], workers[w].item)
                /\ tempFile' = [tempFile EXCEPT ![workers[w].item] = NoFile]
                /\ downloads' = on_status_reg(downloads, order, id, CANCELLED)
                /\ db' = on_status_db(db, order, id, CANCELLED)
                /\ emitted' = on_status_ev(order, id, CANCELLED)
           ELSE /\ emitted' = <<>>
                /\ UNCHANGED <<workers, tempFile, downloads, db>>
    /\ opsLeft' = opsLeft - 1
    /\ UNCHANGED <<hasDb, maxThreadCount, raised, other, order, mgrFlags, queue, finalFile, failsLeft, model_ids>>
    /\ ObserveDirect

\* pause(id), resume(id) or cancel(id) on the caller's thread up to the assignment in
\* _on_status (manager.py:162): the worker's flags (and wakeAll, delete_temp_file) and
\* the registry write are done, status_changed is not emitted yet. _on_status holds no
\* lock, so steps of the worker's thread can come between the write and the emit.
\* cb_pending: the status this callback has written and not yet emitted
CallerWrites(id, op) ==
    /\ opsLeft > 0
    /\ op \in {"pause", "resume", "cancel"}
    /\ id \in Range(order)
    /\ WorkerOf(downloads, order, id) # 0
    /\ LET w == WorkerOf(downloads, order, id)
           s == CASE op = "pause" -> PAUSED
                  [] op = "resume" -> DOWNLOADING
                  [] op = "cancel" -> CANCELLED
           wk == CASE op = "pause" -> w_pause(workers[w])
                   [] op = "resume" -> w_resume(workers[w])
                   [] op = "cancel" -> w_cancel(workers[w])
           ws == [workers EXCEPT ![w] = [wk EXCEPT !.cb_pending = s]]
       IN  /\ workers' = IF op = "cancel" THEN UnlinkTemp(ws, workers[w].item) ELSE ws
           /\ tempFile' = IF op = "cancel"
                          THEN [tempFile EXCEPT ![workers[w].item] = NoFile]
                          ELSE tempFile
           /\ downloads' = on_status_reg(downloads, order, id, s)
    /\ emitted' = <<>>
    /\ opsLeft' = opsLeft - 1
    /\ UNCHANGED <<hasDb, maxThreadCount, raised, other, order, mgrFlags, queue, finalFile, db,
                   failsLeft, model_ids>>
    /\ ObserveDirect

\* the rest of _on_status on the caller's thread (manager.py:163-166): the emit and
\* the store's update_status
CallerEmits(w) ==
    /\ w \in Wids
    /\ workers[w].cb_pending # ""
    /\ LET id == workers[w].item
           s == workers[w].cb_pending
       IN  /\ emitted' = <<status_changed(id, s)>>
           /\ db' = on_status_db(db, order, id, s)
    /\ workers' = [workers EXCEPT ![w].cb_pending = ""]
    /\ UNCHANGED <<hasDb, maxThreadCount, raised, other, order, downloads, mgrFlags, queue, files,
                   opsLeft, failsLeft, model_ids>>
    /\ ObserveDirect

\* the caller's thread is not inside a callback
CallerIdle == \A w \in Wids : workers[w].cb_pending = ""

\* restart without the test for an unknown id
restart_unknownStarts(id) ==
    /\ opsLeft > 0
    /\ IF TRUE
       THEN LET dls == [downloads EXCEPT ![id].status = PENDING,
                                         ![id].downloaded_bytes = 0,
                                         ![id].g_caSeen = FALSE]
                r == start_each(<<id>>, workers, queue, dls)
            IN  /\ Len(workers) < MaxWorkerObjs
                /\ workers' = r.workers
                /\ queue' = r.queue
                /\ downloads' = r.downloads
                /\ db' = IF hasDb THEN update_status(db, id, PENDING) ELSE db
       ELSE UNCHANGED <<workers, queue, downloads, db>>
    /\ emitted' = <<>>
    /\ opsLeft' = opsLeft - 1
    /\ UNCHANGED <<hasDb, maxThreadCount, raised, other, order, mgrFlags, files, failsLeft, model_ids>>
    /\ ObserveDirect

\* DownloadManager.restart
restart(id) ==
    /\ opsLeft > 0
    /\ IF id \in Range(order)
       THEN LET dls == [downloads EXCEPT ![id].status = PENDING,
                                         ![id].downloaded_bytes = 0,
                                         ![id].g_caSeen = FALSE]
                r == start_each(<<id>>, workers, queue, dls)
            IN  /\ Len(workers) < MaxWorkerObjs
                /\ workers' = r.workers
                /\ queue' = r.queue
                /\ downloads' = r.downloads
                /\ db' = IF hasDb THEN update_status(db, id, PENDING) ELSE db
       ELSE UNCHANGED <<workers, queue, downloads, db>>
    /\ emitted' = <<>>
    /\ opsLeft' = opsLeft - 1
    /\ UNCHANGED <<hasDb, maxThreadCount, raised, other, order, mgrFlags, files, failsLeft, model_ids>>
    /\ ObserveDirect

\* ------------------------------------------------------------------ bulk operations
\* the status argument of get_downloads: None, one DownloadStatus, or a list of them
StatusArgs ==
    {[kind |-> "none", one |-> PENDING, list |-> <<>>]}
        \cup {[kind |-> "one", one |-> s, list |-> <<>>] : s \in DownloadStatus}
        \cup {[kind |-> "list", one |-> PENDING, list |-> l] :
                  l \in UNION {[1..n -> DownloadStatus] : n \in 0..MaxStatuses}}

\* get_downloads that takes a list argument by its first element only
get_downloads_of_firstOnly(dls, ord, status) ==
    IF status.kind = "none" THEN ord
    ELSE LET l == IF status.kind # "list" THEN <<status.one>>
                  ELSE IF status.list = <<>> THEN <<>> ELSE <<Head(status.list)>>
         IN  SelectSeq(ord, LAMBDA id : \E k \in DOMAIN l : dls[id].status = l[k])

\* DownloadManager.get_downloads(status): the ids of the records returned, in order
get_downloads_of(dls, ord, status) ==
    IF status.kind = "none" THEN ord
    ELSE LET l == IF status.kind # "list" THEN <<status.one>> ELSE status.list
         IN  SelectSeq(ord, LAMBDA id : \E k \in DOMAIN l : dls[id].status = l[k])

\* the workers the items of ids refer to
WorkersOf(dls, ids) == {dls[id].worker : id \in Range(ids)} \ {0}

SetStatus(dls, ids, s) ==
    [i \in Ids |-> IF i \in Range(ids) THEN [dls[i] EXCEPT !.status = s] ELSE dls[i]]

\* DownloadDB.update_by_status(old_status, new_status), which manager.py calls at lines
\* 249, 268, 282 and 303 and db.py does not hold: every row whose status is one of
\* old_status gets new_status (the "bulk status update (old-status set -> new status)"
\* of the Manager's contract)
update_by_status(d, old_status, new_status) ==
    [i \in Ids |-> IF d[i].present /\ d[i].status \in old_status
                   THEN [d[i] EXCEPT !.status = new_status] ELSE d[i]]

\* DownloadManager.pause_all
pause_all ==
    /\ opsLeft > 0
    /\ mgr_pause_all' = TRUE
    /\ LET downloading == get_downloads(downloads, order, {DOWNLOADING})
           signalled == WorkersOf(downloads, downloading)
           db1 == IF hasDb THEN update_by_status(db, {DOWNLOADING, PENDING}, PAUSED) ELSE db
           \* pause(id) of each DOWNLOADING item: the worker's flag, then _on_status
           ws1 == [w \in DOMAIN workers |->
                      IF w \in signalled THEN w_pause(workers[w])
                      ELSE [workers[w] EXCEPT !.g_resumedAt = -1,
               !.g_resumeAllParked = FALSE, !.g_resumedInAll = FALSE]]
           hit == {i \in Range(downloading) : downloads[i].worker # 0}
           db2 == IF hasDb
                  THEN [i \in Ids |-> IF i \in hit /\ db1[i].present
                                      THEN [db1[i] EXCEPT !.status = PAUSED] ELSE db1[i]]
                  ELSE db1
           active == get_downloads(downloads, order, {DOWNLOADING, PENDING})
       IN  /\ workers' = ws1
           \* g_pauseAllAt: the value of opsLeft after the pause_all that found the item
           \* DOWNLOADING or PENDING
           /\ downloads' = [i \in Ids |->
                               IF i \in Range(active)
                               THEN [downloads[i] EXCEPT !.status = PAUSED,
                                                         !.g_pauseAllAt = opsLeft - 1]
                               ELSE [downloads[i] EXCEPT !.g_pauseAllAt = -1]]
           /\ db' = db2
           /\ emitted' = on_status_evs(order, SelectSeq(downloading, LAMBDA i : i \in hit),
                                        PAUSED)
    /\ opsLeft' = opsLeft - 1
    /\ UNCHANGED <<hasDb, maxThreadCount, raised, other, order, mgr_cancel_all, is_shutdown, queue, files, failsLeft,
                   model_ids>>
    /\ ObserveDirect

\* DownloadManager.resume_all: each PAUSED item is resumed (its worker, or a new one
\* when it has none) and then set to PENDING
resume_all ==
    /\ opsLeft > 0
    /\ mgr_pause_all' = FALSE
    /\ LET paused == get_downloads(downloads, order, {PAUSED})
           signalled == WorkersOf(downloads, paused)
           fresh == SelectSeq(paused, LAMBDA id : downloads[id].worker = 0)
           ws1 == [w \in DOMAIN workers |->
                      \* g_resumeAllParked: the worker was in the pause wait at this call
                      [(IF w \in signalled THEN w_resume(workers[w])
                        ELSE [workers[w] EXCEPT !.g_cancelParked = FALSE])
                       EXCEPT !.g_resumeAllParked = (workers[w].pc = "wait"),
                              !.g_resumedInAll = FALSE]]
           r == start_each(fresh, ws1, queue, SetStatus(downloads, paused, PENDING))
           \* _on_status(id, DOWNLOADING) of each resumed worker, then the bulk update
           db1 == IF hasDb
                  THEN [i \in Ids |->
                          IF i \in Range(paused) /\ downloads[i].worker # 0 /\ db[i].present
                          THEN [db[i] EXCEPT !.status = DOWNLOADING] ELSE db[i]]
                  ELSE db
       IN  /\ Len(workers) + Len(fresh) <= MaxWorkerObjs
           /\ workers' = r.workers
           /\ queue' = r.queue
           /\ downloads' = r.downloads
           /\ db' = IF hasDb THEN update_by_status(db1, {PAUSED}, PENDING) ELSE db1
           /\ emitted' = on_status_evs(order,
                              SelectSeq(paused, LAMBDA id : downloads[id].worker # 0),
                              DOWNLOADING)
    /\ opsLeft' = opsLeft - 1
    /\ UNCHANGED <<hasDb, maxThreadCount, raised, other, order, mgr_cancel_all, is_shutdown, files, failsLeft, model_ids>>
    /\ ObserveDirect

\* DownloadManager.cancel_all
cancel_all(update_memory_status, shutdown) ==
    /\ opsLeft > 0
    \* pool.clear() empties the queue of QThreadPool.globalInstance(), which every
    \* manager of the process uses
    /\ queue' = Taken
    /\ other' = IF other.pc = "queued" /\ 0 \notin Range(Taken)
                THEN [other EXCEPT !.pc = "dropped"] ELSE other
    /\ is_shutdown' = shutdown
    /\ LET downloading == get_downloads(downloads, order, {DOWNLOADING})
           signalled == WorkersOf(downloads, downloading)
           hit == {i \in Range(downloading) : downloads[i].worker # 0}
           \* pool.clear(), the history fields, then cancel(id) of each DOWNLOADING item
           ws1 == [w \in DOMAIN workers |->
                      LET wk == [workers[w] EXCEPT
                                    !.pc = IF @ = "queued" /\ w \notin Range(Taken)
                                           THEN "dropped" ELSE @,
                                    !.g_caLive = @ \/ Live(workers[w]),
                                    !.g_shutParked = @ \/ (shutdown /\ workers[w].pc = "wait"
                                                              /\ ~workers[w].woken)]
                      IN  IF w \in signalled THEN w_cancel(wk) ELSE wk]
           ws2 == [w \in DOMAIN ws1 |->
                      IF ws1[w].item \in hit /\ ws1[w].fd = "temp"
                      THEN [ws1[w] EXCEPT !.fd = "none"] ELSE ws1[w]]
           dls0 == [i \in Ids |->
                      [downloads[i] EXCEPT !.g_caSeen =
                          @ \/ (i \in Range(order) /\ downloads[i].status \in {PENDING, DOWNLOADING})]]
           dls1 == SetStatus(dls0, SelectSeq(downloading, LAMBDA i : i \in hit), CANCELLED)
           db1 == IF hasDb
                  THEN [i \in Ids |-> IF i \in hit /\ db[i].present
                                      THEN [db[i] EXCEPT !.status = CANCELLED] ELSE db[i]]
                  ELSE db
           \* lines 288-290: shutdown(id) of each PAUSED item
           paused == get_downloads(dls1, order, {PAUSED})
           stopped == IF shutdown THEN WorkersOf(dls1, paused) ELSE {}
           ws3 == [w \in DOMAIN ws2 |-> IF w \in stopped THEN w_shutdown(ws2[w]) ELSE ws2[w]]
           \* lines 293-295
           dls2 == IF update_memory_status
                   THEN SetStatus(dls1, get_downloads(dls1, order, {DOWNLOADING, PENDING}),
                                  CANCELLED)
                   ELSE dls1
       IN  /\ tempFile' = [i \in Ids |-> IF i \in hit THEN NoFile ELSE tempFile[i]]
           /\ db' = IF hasDb THEN update_by_status(db1, {DOWNLOADING, PENDING}, CANCELLED)
                    ELSE db1
           /\ workers' = ws3
           /\ downloads' = dls2
           /\ emitted' = on_status_evs(order, SelectSeq(downloading, LAMBDA i : i \in hit),
                                        CANCELLED)
    /\ opsLeft' = opsLeft - 1
    /\ UNCHANGED <<hasDb, maxThreadCount, raised, order, mgr_pause_all, mgr_cancel_all, finalFile, failsLeft,
                   model_ids>>
    /\ ObserveDirect

\* DownloadManager.restart_all
restart_all ==
    /\ opsLeft > 0
    /\ LET ids == get_downloads(downloads, order, {CANCELLED, ERROR})
           dls == [i \in Ids |-> IF i \in Range(ids)
                                 THEN [downloads[i] EXCEPT !.status = PENDING,
                                                           !.g_caSeen = FALSE]
                                 ELSE downloads[i]]
           r == start_each(ids, workers, queue, dls)
       IN  /\ Len(workers) + Len(ids) <= MaxWorkerObjs
           /\ workers' = r.workers
           /\ queue' = r.queue
           /\ downloads' = r.downloads
           /\ db' = IF hasDb THEN update_by_status(db, {CANCELLED, ERROR}, PENDING) ELSE db
    /\ emitted' = <<>>
    /\ opsLeft' = opsLeft - 1
    /\ UNCHANGED <<hasDb, maxThreadCount, raised, other, order, mgrFlags, files, failsLeft, model_ids>>
    /\ ObserveDirect

\* resume_interrupted_downloads that also clears the byte counters of the records it
\* demotes, as restart does
resume_interrupted_downloads_resetBytes ==
    /\ opsLeft > 0
    /\ LET interrupted == get_downloads(downloads, order, {DOWNLOADING, PENDING})
           dls == [i \in Ids |-> IF i \in Range(interrupted)
                                  THEN [downloads[i] EXCEPT !.status = PENDING,
                                                            !.downloaded_bytes = 0]
                                  ELSE downloads[i]]
           ids == StartSet(dls, workers, order)
           r == start_each(ids, workers, queue, dls)
       IN  /\ Len(workers) + Len(ids) <= MaxWorkerObjs
           /\ workers' = r.workers
           /\ queue' = r.queue
           /\ downloads' = r.downloads
           /\ db' = IF hasDb
                    THEN [i \in Ids |-> IF i \in Range(interrupted) /\ db[i].present
                                        THEN [db[i] EXCEPT !.status = PENDING] ELSE db[i]]
                    ELSE db
    /\ emitted' = <<>>
    /\ opsLeft' = opsLeft - 1
    /\ UNCHANGED <<hasDb, maxThreadCount, raised, other, order, mgrFlags, files, failsLeft, model_ids>>
    /\ ObserveDirect

\* DownloadManager.resume_interrupted_downloads: DOWNLOADING and PENDING records are set
\* to PENDING (and persisted), then start()
resume_interrupted_downloads ==
    /\ opsLeft > 0
    /\ LET interrupted == get_downloads(downloads, order, {DOWNLOADING, PENDING})
           dls == SetStatus(downloads, interrupted, PENDING)
           ids == StartSet(dls, workers, order)
           r == start_each(ids, workers, queue, dls)
       IN  /\ Len(workers) + Len(ids) <= MaxWorkerObjs
           /\ workers' = r.workers
           /\ queue' = r.queue
           /\ downloads' = r.downloads
           /\ db' = IF hasDb
                    THEN [i \in Ids |-> IF i \in Range(interrupted) /\ db[i].present
                                        THEN [db[i] EXCEPT !.status = PENDING] ELSE db[i]]
                    ELSE db
    /\ emitted' = <<>>
    /\ opsLeft' = opsLeft - 1
    /\ UNCHANGED <<hasDb, maxThreadCount, raised, other, order, mgrFlags, files, failsLeft, model_ids>>
    /\ ObserveDirect

\* ------------------------------------------------------------------ delete
RemoveKey(ord, id) == SelectSeq(ord, LAMBDA k : k # id)

\* DownloadListModel.on_download_deleted: the first row that holds id is removed
on_download_deleted(ids, id) ==
    IF id \notin Range(ids) THEN ids
    ELSE LET row == CHOOSE k \in DOMAIN ids : ids[k] = id /\ \A j \in 1..(k - 1) : ids[j] # id
         IN  SubSeq(ids, 1, row - 1) \o SubSeq(ids, row + 1, Len(ids))

\* DownloadManager.delete as a function of the state st it finds: cancel of the item's
\* worker, removal of the row, of the destination file when asked and of the registry
\* entry, then download_deleted
delete_one(st, id, delete_file) ==
    IF id \notin Range(st.order) THEN st
    ELSE LET w == st.downloads[id].worker
         IN  [workers |->
                 IF w # 0
                 THEN UnlinkFinal(
                        UnlinkTemp([st.workers EXCEPT ![w] =
                                       [w_cancel(@) EXCEPT !.g_deleteSeen =
                                           @ \/ (delete_file /\ is_running(st.workers[w]))]],
                                   id),
                        IF delete_file THEN id ELSE 0)
                 ELSE UnlinkFinal(st.workers, IF delete_file THEN id ELSE 0),
              tempFile |-> IF w # 0 THEN [st.tempFile EXCEPT ![id] = NoFile] ELSE st.tempFile,
              finalFile |-> IF delete_file THEN [st.finalFile EXCEPT ![id] = NoFile]
                            ELSE st.finalFile,
              db |-> IF hasDb THEN [st.db EXCEPT ![id] = NoRow] ELSE st.db,
              order |-> RemoveKey(st.order, id),
              downloads |-> [st.downloads EXCEPT ![id] = NewItem],
              emitted |-> st.emitted
                            \o (IF w # 0 THEN <<status_changed(id, CANCELLED)>> ELSE <<>>)
                            \o <<deleted(id)>>,
              model_ids |-> on_download_deleted(st.model_ids, id)]

\* delete of each id of ids, in order
RECURSIVE delete_each(_, _, _)
delete_each(st, ids, delete_file) ==
    IF ids = <<>> THEN st
    ELSE delete_each(delete_one(st, Head(ids), delete_file), Tail(ids), delete_file)

\* the state a delete call finds (no signal emitted yet)
DeleteState ==
    [workers |-> workers, tempFile |-> tempFile, finalFile |-> finalFile, db |-> db,
     order |-> order, downloads |-> downloads, emitted |-> <<>>, model_ids |-> model_ids]

DeleteResult(r) ==
    /\ workers' = r.workers
    /\ tempFile' = r.tempFile
    /\ finalFile' = r.finalFile
    /\ db' = r.db
    /\ order' = r.order
    /\ downloads' = r.downloads
    /\ emitted' = r.emitted
    /\ model_ids' = r.model_ids

\* DownloadManager.delete
delete(id, delete_file) ==
    /\ opsLeft > 0
    /\ DeleteResult(delete_one(DeleteState, id, delete_file))
    /\ opsLeft' = opsLeft - 1
    /\ UNCHANGED <<hasDb, maxThreadCount, raised, other, mgrFlags, queue, failsLeft>>
    /\ ObserveDirect

\* DownloadManager.delete_by_status: delete(id) (delete_file defaults to True) of every
\* item whose status is one of statuses, the list taken before the first delete
delete_by_status(statuses) ==
    /\ opsLeft > 0
    /\ DeleteResult(delete_each(DeleteState, get_downloads(downloads, order, statuses), TRUE))
    /\ opsLeft' = opsLeft - 1
    /\ UNCHANGED <<hasDb, maxThreadCount, raised, other, mgrFlags, queue, failsLeft>>
    /\ ObserveDirect

\* a delete_all that leaves the destination files in place whatever delete_files is
delete_all_keepsFiles(delete_files) ==
    /\ opsLeft > 0
    /\ db' = IF hasDb THEN [i \in Ids |-> NoRow] ELSE db
    /\ workers' = [w \in DOMAIN workers |->
                      [workers[w] EXCEPT !.g_cleared =
                          @ \/ (workers[w].item \in Range(order) /\ Live(workers[w]))]]
    /\ order' = <<>>
    /\ downloads' = [i \in Ids |-> NewItem]
    /\ emitted' = <<cleared>>
    /\ model_ids' = <<>>
    /\ opsLeft' = opsLeft - 1
    /\ UNCHANGED <<hasDb, maxThreadCount, raised, other, mgrFlags, queue, files, failsLeft>>
    /\ ObserveDirect

\* DownloadManager.delete_all: the store and the registry are emptied; no worker is told
delete_all(delete_files) ==
    /\ opsLeft > 0
    /\ db' = IF hasDb THEN [i \in Ids |-> NoRow] ELSE db
    /\ finalFile' = IF delete_files
                    THEN [i \in Ids |-> IF i \in Range(order) THEN NoFile ELSE finalFile[i]]
                    ELSE finalFile
    /\ workers' = [w \in DOMAIN workers |->
                      LET wk == [workers[w] EXCEPT !.g_cleared =
                                    @ \/ (workers[w].item \in Range(order) /\ Live(workers[w]))]
                      IN  IF delete_files /\ wk.item \in Range(order) /\ wk.fd = "final"
                          THEN [wk EXCEPT !.fd = "none"] ELSE wk]
    /\ order' = <<>>
    /\ downloads' = [i \in Ids |-> NewItem]
    \* downloads_cleared -> DownloadListModel.on_downloads_cleared
    /\ emitted' = <<cleared>>
    /\ model_ids' = <<>>
    /\ opsLeft' = opsLeft - 1
    /\ UNCHANGED <<hasDb, maxThreadCount, raised, other, mgrFlags, queue, tempFile, failsLeft>>
    /\ ObserveDirect

\* ------------------------------------------------------------------ process restart
\* The process ends (its workers with it) and a new manager is built on the same store:
\* __init__ with load_history, then _load_history.  Files and rows survive.
RECURSIVE RowIds(_)
RowIds(k) ==
    IF k > MaxId THEN <<>>
    ELSE (IF db[k].present THEN <<k>> ELSE <<>>) \o RowIds(k + 1)

Relaunch ==
    /\ opsLeft > 0
    /\ hasDb
    /\ order' = RowIds(1)
    /\ downloads' = [i \in Ids |->
                        IF db[i].present
                        THEN [NewItem EXCEPT !.status = db[i].status,
                                             !.downloaded_bytes = db[i].downloaded_bytes,
                                             !.total_bytes = db[i].total_bytes]
                        ELSE NewItem]
    /\ workers' = <<>>
    /\ queue' = <<>>
    /\ other' = NoOther
    /\ mgr_pause_all' = FALSE
    /\ mgr_cancel_all' = FALSE
    /\ is_shutdown' = FALSE
    \* a new DownloadListModel: _initialize_from_manager
    /\ emitted' = <<>>
    /\ model_ids' = RowIds(1)
    /\ opsLeft' = opsLeft - 1
    /\ UNCHANGED <<hasDb, maxThreadCount, raised, files, db, failsLeft>>
    /\ session' = NoSession

\* ------------------------------------------------------------------ second manager
\* The second manager adds one item and calls start(): _start_download queues the
\* item's worker in the pool of the process (manager.py:36, 208-227)
other_start ==
    /\ other.pc = "none"
    /\ other' = [status |-> PENDING, pc |-> "queued"]
    /\ queue' = Append(queue, 0)
    /\ emitted' = <<>>
    /\ UNCHANGED <<hasDb, maxThreadCount, raised, order, downloads, mgrFlags, workers, files,
                   db, opsLeft, failsLeft, model_ids>>
    /\ session' = session

\* the pool starts the second manager's worker when it is the oldest queued runnable
\* and a thread is free
OtherPoolRun ==
    /\ queue # <<>>
    /\ Head(queue) = 0
    /\ Cardinality(Running) < maxThreadCount
    /\ queue' = Tail(queue)
    /\ other' = [other EXCEPT !.pc = "running"]
    /\ emitted' = <<>>
    /\ UNCHANGED <<hasDb, maxThreadCount, raised, order, downloads, mgrFlags, workers, files,
                   db, opsLeft, failsLeft, model_ids>>
    /\ session' = session

\* the second manager's worker: its request is answered (status DOWNLOADING in its own
\* manager's registry), then it streams the file and ends (COMPLETED)
OtherTransfer ==
    /\ other.pc = "running"
    /\ other' = IF other.status = PENDING
                THEN [other EXCEPT !.status = DOWNLOADING]
                ELSE [status |-> COMPLETED, pc |-> "done"]
    /\ emitted' = <<>>
    /\ UNCHANGED <<hasDb, maxThreadCount, raised, order, downloads, mgrFlags, workers, queue,
                   files, db, opsLeft, failsLeft, model_ids>>
    /\ session' = session

OtherStep == OtherPoolRun \/ OtherTransfer

\* ------------------------------------------------------------------ session progress bar
\* SessionProgressBar.set_managers: recalculate_totals, then the two connects
set_managers ==
    /\ ~session.attached
    /\ session' = recalculate_totals([session EXCEPT !.attached = TRUE], downloads, order)
    /\ emitted' = <<>>
    /\ UNCHANGED <<hasDb, maxThreadCount, raised, order, downloads, mgrFlags, workers, queue,
                   files, db, opsLeft, failsLeft, model_ids, other>>

\* the event loop of the progress bar's thread runs the slot of the oldest queued signal
session_deliver ==
    /\ session.inbox # <<>>
    /\ session' = [Slot(session, Head(session.inbox), downloads, order)
                      EXCEPT !.inbox = Tail(session.inbox)]
    /\ emitted' = <<>>
    /\ UNCHANGED <<hasDb, maxThreadCount, raised, order, downloads, mgrFlags, workers, queue,
                   files, db, opsLeft, failsLeft, model_ids, other>>

\* ------------------------------------------------------------------ specification
ManagerCall ==
    \/ \E n \in 1..MaxBatch : add_new_downloads(n)
    \/ start
    \/ \E id \in Ids : pause(id)
    \/ \E id \in Ids : resume(id)
    \/ \E id \in Ids : cancel(id)
    \/ \E id \in Ids : restart(id)
    \/ pause_all
    \/ resume_all
    \/ \E u \in BOOLEAN, sd \in BOOLEAN : cancel_all(u, sd)
    \/ restart_all
    \/ resume_interrupted_downloads
    \/ \E id \in Ids, df \in BOOLEAN : delete(id, df)
    \/ \E s \in DownloadStatus : delete_by_status({s})
    \/ \E df \in BOOLEAN : delete_all(df)
    \/ Relaunch

Next ==
    \/ ManagerCall
    \/ \E w \in Wids : WorkerStep(w)
    \/ \E w \in Wids : WorkerFail(w)

Spec == Init /\ [][Next]_vars

\* The engine without a store, driven by single adds, start, the per-item controls of
\* registered items, resume_interrupted_downloads and cancel_all
ControlCall ==
    \/ add_new_downloads(1)
    \/ start
    \/ \E id \in Range(order) : pause(id)
    \/ \E id \in Range(order) : resume(id)
    \/ \E id \in Range(order) : cancel(id)
    \/ \E id \in Range(order) : restart(id)
    \/ resume_interrupted_downloads
    \/ \E u \in BOOLEAN, sd \in BOOLEAN : cancel_all(u, sd)

ControlNext ==
    \/ ControlCall
    \/ \E w \in Wids : WorkerStep(w)
    \/ \E w \in Wids : WorkerFail(w)

ControlSpec == InitWith({FALSE}, MaxControlOps) /\ [][ControlNext]_vars

\* The same engine with MaxOps calls, where the pool and the operating system run
\* every worker that can take a step
FairSpec ==
    /\ InitWith({FALSE}, MaxOps)
    /\ [][ControlNext]_vars
    /\ \A w \in 1..MaxWorkerObjs : WF_vars(WorkerStep(w))

\* The engine, with and without a store, driven by the calls that change the registry
\* (add, delete, delete_by_status, delete_all), start and process restart
RegistryCall ==
    \/ \E n \in 1..MaxBatch : add_new_downloads(n)
    \/ start
    \/ \E id \in Ids, df \in BOOLEAN : delete(id, df)
    \/ \E s \in DownloadStatus : delete_by_status({s})
    \/ \E df \in BOOLEAN : delete_all(df)
    \/ Relaunch

RegistryNext ==
    \/ RegistryCall
    \/ \E w \in Wids : WorkerStep(w)
    \/ \E w \in Wids : WorkerFail(w)

RegistrySpec == InitWith(BOOLEAN, MaxRegistryOps) /\ [][RegistryNext]_vars

\* The engine without a store on a pool of 1..max_workers threads, driven by add, start
\* and the calls that dispatch or stop single workers
PoolCall ==
    \/ \E n \in 1..MaxBatch : add_new_downloads(n)
    \/ start
    \/ \E id \in Range(order) : pause(id)
    \/ \E id \in Range(order) : resume(id)
    \/ \E id \in Range(order) : restart(id)
    \/ restart_all

PoolNext ==
    \/ PoolCall
    \/ \E w \in Wids : WorkerStep(w)
    \/ \E w \in Wids : WorkerFail(w)

PoolSpec == InitPool({FALSE}, MaxPoolOps, 1..max_workers) /\ [][PoolNext]_vars

\* The engine with a store, driven by single adds, start, pause and resume of registered
\* items, process restart and resume_interrupted_downloads, with no transfer failure,
\* where the pool and the operating system run every worker that can take a step
RecoveryCall ==
    \/ add_new_downloads(1)
    \/ start
    \/ \E id \in Range(order) : pause(id)
    \/ \E id \in Range(order) : resume(id)
    \/ Relaunch
    \/ resume_interrupted_downloads

RecoveryNext ==
    \/ RecoveryCall
    \/ \E w \in Wids : WorkerStep(w)

RecoverySpec ==
    /\ InitWith({TRUE}, MaxRecoveryOps)
    /\ [][RecoveryNext]_vars
    /\ \A w \in 1..MaxWorkerObjs : WF_vars(WorkerStep(w))

\* The engine, with and without a store, against a server that sends some responses
\* without a content-length header, driven by single adds, start, restart, process
\* restart and resume_interrupted_downloads
ServerCall ==
    \/ add_new_downloads(1)
    \/ start
    \/ \E id \in Range(order) : restart(id)
    \/ Relaunch
    \/ resume_interrupted_downloads

ServerNext ==
    \/ ServerCall
    \/ \E w \in Wids : WorkerStep(w)
    \/ \E w \in Wids : RequestChunked(w)
    \/ \E w \in Wids : WorkerFail(w)

ServerSpec == InitWith(BOOLEAN, MaxServerOps) /\ [][ServerNext]_vars

\* The engine, with and without a store, driven by add_new_downloads with every
\* argument of Inputs and with batch upserts that succeed or fail, start and delete
AddCall ==
    \/ \E download_items \in Inputs, upsert_fails \in BOOLEAN :
          add_new_downloads_of(download_items, upsert_fails)
    \/ start
    \/ \E id \in Range(order), df \in BOOLEAN : delete(id, df)

AddNext ==
    \/ AddCall
    \/ \E w \in Wids : WorkerStep(w)

AddSpec == InitWith(BOOLEAN, MaxAddOps) /\ [][AddNext]_vars

\* The engine without a store, driven by single adds, start, pause and resume of
\* registered items, pause_all and resume_all, with no transfer failure, where the pool
\* and the operating system run every worker that can take a step
GateCall ==
    \/ add_new_downloads(1)
    \/ start
    \/ \E id \in Range(order) : pause(id)
    \/ \E id \in Range(order) : resume(id)
    \/ pause_all
    \/ resume_all

GateNext ==
    \/ GateCall
    \/ \E w \in Wids : WorkerStep(w)

GateSpec ==
    /\ InitWith({FALSE}, MaxGateOps)
    /\ [][GateNext]_vars
    /\ \A w \in 1..MaxWorkerObjs : WF_vars(WorkerStep(w))

\* The engine, with and without a store, driven from one caller thread by single adds,
\* start, and pause, resume and cancel of items that have a worker, the caller's
\* callback and the workers' steps interleaved
RaceCall ==
    \/ CallerIdle /\ add_new_downloads(1)
    \/ CallerIdle /\ start
    \/ \E id \in Range(order), op \in {"pause", "resume", "cancel"} :
          CallerIdle /\ CallerWrites(id, op)
    \/ \E w \in Wids : CallerEmits(w)

RaceNext ==
    \/ RaceCall
    \/ \E w \in Wids : WorkerStep(w)

RaceSpec == InitWith(BOOLEAN, MaxRaceOps) /\ [][RaceNext]_vars

\* The engine without a store, driven by single adds, start, the per-item controls
\* pause, resume and cancel of registered items, the bulk controls and
\* resume_interrupted_downloads, with no restart(id) and no delete
TerminalCall ==
    \/ add_new_downloads(1)
    \/ start
    \/ \E id \in Range(order) : pause(id)
    \/ \E id \in Range(order) : resume(id)
    \/ \E id \in Range(order) : cancel(id)
    \/ pause_all
    \/ resume_all
    \/ \E u \in BOOLEAN, sd \in BOOLEAN : cancel_all(u, sd)
    \/ restart_all
    \/ resume_interrupted_downloads

TerminalNext ==
    \/ TerminalCall
    \/ \E w \in Wids : WorkerStep(w)

TerminalSpec == InitWith({FALSE}, MaxTerminalOps) /\ [][TerminalNext]_vars

\* The engine without a store and with a pool of 1..max_workers threads, driven by adds,
\* start, pause and resume of registered items, with no transfer failure, where the
\* pool and the operating system run every worker that can take a step
SlotCall ==
    \/ \E n \in 1..MaxBatch : add_new_downloads(n)
    \/ start
    \/ \E id \in Range(order) : pause(id)
    \/ \E id \in Range(order) : resume(id)

SlotNext ==
    \/ SlotCall
    \/ \E w \in Wids : WorkerStep(w)

SlotSpec ==
    /\ InitPool({FALSE}, MaxSlotOps, 1..max_workers)
    /\ [][SlotNext]_vars
    /\ \A w \in 1..MaxWorkerObjs : WF_vars(WorkerStep(w))

\* The engine without a store, watched by a SessionProgressBar, driven by adds, start
\* and the per-item controls of registered items, where the pool and the operating
\* system run every worker that can take a step and the event loop delivers every
\* queued signal
SessionCall ==
    \/ set_managers
    \/ \E n \in 1..MaxBatch : add_new_downloads(n)
    \/ start
    \/ \E id \in Range(order) : pause(id)
    \/ \E id \in Range(order) : resume(id)
    \/ \E id \in Range(order) : cancel(id)
    \/ \E id \in Range(order) : restart(id)

SessionNext ==
    \/ SessionCall
    \/ \E w \in Wids : WorkerStep(w)
    \/ \E w \in Wids : WorkerFail(w)
    \/ session_deliver

SessionSpec ==
    /\ InitWith({FALSE}, MaxSessionOps)
    /\ [][SessionNext]_vars
    /\ \A w \in 1..MaxWorkerObjs : WF_vars(WorkerStep(w))
    /\ WF_vars(session_deliver)

\* Two managers of one process on a pool of 1..max_workers threads, the first without a
\* store and driven by single adds, start and cancel_all, the second with one item that it adds and starts, where the
\* pool and the operating system run every worker that can take a step
SharedCall ==
    \/ add_new_downloads(1)
    \/ start
    \/ \E u \in BOOLEAN, sd \in BOOLEAN : cancel_all(u, sd)
    \/ other_start

SharedNext ==
    \/ SharedCall
    \/ \E w \in Wids : WorkerStep(w)
    \/ OtherStep

SharedSpec ==
    /\ InitPool({FALSE}, MaxSharedOps, 1..max_workers)
    /\ [][SharedNext]_vars
    /\ \A w \in 1..MaxWorkerObjs : WF_vars(WorkerStep(w))
    /\ WF_vars(OtherStep)

\* ------------------------------------------------------------------ claims
LiveWorkers(id) == {w \in Wids : workers[w].item = id /\ Live(workers[w])}

\* C1: in every reachable state each item has at most one worker that is queued in
\* the pool or running.
C1_OneLiveWorkerPerItem ==
    \A id \in Ids : Cardinality(LiveWorkers(id)) <= 1

SoleWorker(w) == \A v \in Wids : v # w => workers[v].item # workers[w].item

\* C2: a worker that was queued or running when cancel(id) reached it, and has stopped,
\* has left no temp file and has not renamed a file to the destination (stated for an
\* item that never had another worker).
C2_CancelLeavesNoFile ==
    \A w \in Wids :
        (workers[w].g_cancelSeen /\ workers[w].pc = "done" /\ SoleWorker(w))
            => (tempFile[workers[w].item] = NoFile /\ ~workers[w].g_renamed)

\* C3: no worker that was queued or running when cancel_all() was called renames its
\* temp file to the destination, and no item that was PENDING or DOWNLOADING at that
\* call becomes COMPLETED unless it is restarted.
C3_CancelAllStopsEveryWorker ==
    /\ \A w \in Wids : workers[w].g_caLive => ~workers[w].g_renamed
    /\ \A id \in Range(order) : downloads[id].g_caSeen => downloads[id].status # COMPLETED

\* C4: every add of n requests appends n new ids to the registry: pairwise distinct,
\* not in the registry before, in input order, each a fresh PENDING record.
C4_AddRegistersDistinctIds ==
    [][\A n \in 1..MaxBatch :
          add_new_downloads(n) =>
             \E ids \in [1..n -> Ids] :
                /\ \A j, k \in 1..n : j < k => ids[j] < ids[k]
                /\ \A k \in 1..n : ids[k] \notin Range(order)
                /\ order' = order \o ids]_vars

\* C5 (the part on restart(id)): restart(id) of a registered item sets its status to
\* PENDING, dispatches a worker and leaves its downloaded_bytes unchanged.
C5_RestartKeepsBytes ==
    [][\A id \in Ids :
          (restart(id) /\ id \in Range(order)) =>
             /\ downloads'[id].status = PENDING
             /\ Len(workers') = Len(workers) + 1
             /\ downloads'[id].worker = Len(workers')
             /\ downloads'[id].downloaded_bytes = downloads[id].downloaded_bytes]_vars

HasLiveWorker(id) == downloads[id].worker # 0 /\ Live(workers[downloads[id].worker])

\* C6: resume(id) of a registered item starts a fresh worker when the item has no live
\* worker, and starts none when it has one.
C6_ResumeStartsWhenNoLiveWorker ==
    [][\A id \in Ids :
          (resume(id) /\ id \in Range(order)) =>
             IF HasLiveWorker(id)
             THEN Len(workers') = Len(workers)
             ELSE /\ Len(workers') = Len(workers) + 1
                  /\ workers'[Len(workers')].item = id
                  /\ Live(workers'[Len(workers')])]_vars

\* C7: after pause(id) reached a streaming worker, that worker writes at most one more
\* chunk, and none once it has parked on the pause wait, until resume, cancel or shutdown.
C7_PauseStopsWithinOneChunk ==
    \A w \in Wids : workers[w].g_sincePause <= 1 /\ ~workers[w].g_wroteAfterPark

C7_Witness ==
    \E w \in Wids :
        /\ workers[w].g_sincePause = 1
        /\ workers[w].pc = "wait"
        /\ workers[w].paused
        /\ workers[w].downloaded < workers[w].total

Resumed(w) ==
    /\ w \in Wids
    /\ workers[w].g_resumedAt >= 0
    /\ workers[w].downloaded = workers[w].g_resumedAt
    /\ workers[w].downloaded < workers[w].total

Advanced(w) ==
    \/ w \notin Wids
    \/ workers[w].g_resumedAt < 0
    \/ workers[w].downloaded > workers[w].g_resumedAt

\* C8: after pause(id) on a streaming worker and then resume(id) (no pause_all in
\* force), the worker's byte count never falls below the value it had at the resume,
\* and, while chunks remain, the worker writes a further chunk unless it is paused or
\* cancelled again, the transfer fails or the process ends.
C8_ResumeContinues ==
    /\ [](\A w \in Wids :
            workers[w].g_resumedAt >= 0 => workers[w].downloaded >= workers[w].g_resumedAt)
    /\ \A w \in 1..MaxWorkerObjs : Resumed(w) ~> Advanced(w)

C8_Witness ==
    \E w \in Wids :
        /\ workers[w].g_resumedAt >= 1
        /\ workers[w].downloaded > workers[w].g_resumedAt

C10_ShutdownStopsParkedWorkers ==
    \A w \in Wids :
        (workers[w].g_shutParked /\ SoleWorker(w))
            => (workers[w].pc = "done" \/ workers[w].woken)

\* C11: when resume_all() is the manager call that follows pause_all(), every item that
\* was PENDING or DOWNLOADING at the pause_all() has status PENDING after it (unless its
\* worker has ended the transfer in between) and the same downloaded_bytes.
C11_PauseAllResumeAllGivesPending ==
    [][resume_all =>
          \A id \in Range(order) :
             downloads[id].g_pauseAllAt = opsLeft =>
                /\ downloads'[id].status \in {PENDING, COMPLETED, ERROR, CANCELLED}
                /\ downloads'[id].downloaded_bytes = downloads[id].downloaded_bytes]_vars

\* C12: a worker that was running when delete(id, delete_file=true) reached it, and has
\* ended, has left neither a temp file nor a destination file of the item (stated for an
\* item that never had another worker).
C12_DeleteLeavesNoFile ==
    \A w \in Wids :
        (workers[w].g_deleteSeen /\ workers[w].pc = "done" /\ SoleWorker(w))
            => /\ tempFile[workers[w].item] = NoFile
               /\ finalFile[workers[w].item] = NoFile

\* C13 (the part on delete_all): no worker that was queued or running for a registered
\* item when delete_all() was called writes a chunk or renames a file to the destination
\* after the call.
C13_DeleteAllStopsWorkers ==
    \A w \in Wids : ~workers[w].g_actedAfterClear

\* C14: delete_all(delete_files=true) leaves the registry empty, the store without rows
\* and no destination file of an item that was registered, and emits downloads_cleared
\* exactly once and no other registry signal.
C14_DeleteAllClears ==
    [][delete_all(TRUE) =>
          /\ order' = <<>>
          /\ \A i \in Ids : ~db'[i].present
          /\ \A id \in Range(order) : finalFile'[id] = NoFile
          /\ emitted' = <<cleared>>
          /\ model_ids' = <<>>]_vars

\* add, start, the transfer completes, delete_all(true): the file that was renamed to
\* the destination is gone
C14_Witness ==
    /\ emitted = <<cleared>>
    /\ opsLeft = MaxRegistryOps - 3
    /\ order = <<>>
    /\ \E w \in Wids : workers[w].g_renamed /\ finalFile[workers[w].item] = NoFile

Emitted(evs, kind, id) == {k \in DOMAIN evs : evs[k].kind = kind /\ evs[k].ids = <<id>>}

C16_ModelRowsMatchRegistry ==
    Len(model_ids) = Len(order)

\* C17: start() gives every registered item that is PENDING and has no live worker a
\* new worker, queued in the pool, and changes neither the status nor the worker of an
\* item that is DOWNLOADING, PAUSED, ERROR, CANCELLED or COMPLETED, nor any worker that
\* existed before the call.
C17_StartDispatchesPendingOnly ==
    [][start =>
          /\ \A id \in Range(order) :
                IF downloads[id].status = PENDING
                THEN ~HasLiveWorker(id) =>
                        /\ downloads'[id].worker > Len(workers)
                        /\ workers'[downloads'[id].worker] = NewWorker(id)
                        /\ downloads'[id].worker \in Range(queue')
                        /\ downloads'[id].status = PENDING
                ELSE /\ downloads'[id].status = downloads[id].status
                     /\ downloads'[id].worker = downloads[id].worker
          /\ \A w \in Wids : workers'[w] = workers[w]]_vars

\* add, start, the transfer completes, add, start: the second start has queued a worker
\* for the new item and left the completed one alone
C17_Witness ==
    /\ opsLeft = MaxControlOps - 4
    /\ emitted = <<>>
    /\ \E a, b \in Range(order) :
          /\ downloads[a].status = COMPLETED
          /\ downloads[a].worker = 1
          /\ workers[1].pc = "done"
          /\ downloads[b].status = PENDING
          /\ downloads[b].worker = 2
          /\ workers[2] = NewWorker(b)
          /\ queue = <<2>>

\* C18: in every reachable state the number of workers whose run() is executing is at
\* most the max_workers the manager was built with.
C18_RunningWithinMaxWorkers ==
    Cardinality(Running) <= maxThreadCount

\* a manager with one thread: one worker of an item is transferring while another
\* worker, dispatched later, waits in the pool's queue
C18_Witness ==
    /\ maxThreadCount = 1
    /\ queue # <<>>
    /\ \E w \in Running : workers[w].pc = "write" /\ workers[w].downloaded > 0

\* C19: resume_interrupted_downloads() sets every DOWNLOADING record to PENDING with its
\* downloaded_bytes and total_bytes as they were, in the registry and in the store;
\* leaves every PAUSED, ERROR, CANCELLED and COMPLETED record and row as it was; and
\* gives every record that is PENDING after the call, and whose worker is not running,
\* a new worker queued in the pool.
C19_ResumeInterruptedDemotesAndStarts ==
    [][resume_interrupted_downloads =>
          \A id \in Range(order) :
             /\ downloads[id].status = DOWNLOADING =>
                   /\ downloads'[id].status = PENDING
                   /\ downloads'[id].downloaded_bytes = downloads[id].downloaded_bytes
                   /\ downloads'[id].total_bytes = downloads[id].total_bytes
                   /\ db'[id].downloaded_bytes = db[id].downloaded_bytes
                   /\ db'[id].total_bytes = db[id].total_bytes
                   /\ (hasDb /\ db[id].present) => db'[id].status = PENDING
             /\ downloads[id].status \in {PAUSED, ERROR, CANCELLED, COMPLETED} =>
                   /\ downloads'[id] = downloads[id]
                   /\ db'[id] = db[id]
             /\ (/\ downloads'[id].status = PENDING
                 /\ ~(downloads[id].worker # 0 /\ is_running(workers[downloads[id].worker]))) =>
                   /\ downloads'[id].worker > Len(workers)
                   /\ workers'[downloads'[id].worker] = NewWorker(id)
                   /\ downloads'[id].worker \in Range(queue')]_vars

\* a process that died with a DOWNLOADING row holding one byte of two: after the reload
\* and resume_interrupted_downloads() the record is PENDING with that byte count and
\* its worker is queued
C19_Witness ==
    /\ hasDb
    /\ opsLeft = MaxOps - 4
    /\ \E id \in Range(order) :
          /\ downloads[id].status = PENDING
          /\ db[id].status = PENDING
          /\ downloads[id].downloaded_bytes = 1
          /\ downloads[id].total_bytes = FileSize
          /\ tempFile[id] = 1
          /\ workers = <<NewWorker(id)>>
          /\ queue = <<1>>

\* the state resume_interrupted_downloads() leaves after a reload of the history, when it
\* is the last call made: the record of id, loaded with the byte count of its partial
\* temp file, is PENDING and its worker, the only one of the process, is queued
Recovered(id) ==
    /\ opsLeft = 0
    /\ id \in Range(order)
    /\ downloads[id].status = PENDING
    /\ db[id].present /\ db[id].status = PENDING
    /\ tempFile[id] > 0 /\ tempFile[id] < FileSize
    /\ downloads[id].downloaded_bytes = tempFile[id]
    /\ workers = <<NewWorker(id)>>
    /\ queue = <<1>>

\* the item is COMPLETED in the registry and in the store; its worker appended to the
\* temp file from its offset, counted as many bytes as the server's total, and the
\* destination file has that size
RecoveryCompleted(id) ==
    /\ Len(workers) = 1
    /\ downloads[id].status = COMPLETED
    /\ db[id].status = COMPLETED
    /\ workers[1].append
    /\ workers[1].downloaded = workers[1].total
    /\ workers[1].total = FileSize
    /\ finalFile[id] = FileSize
    /\ tempFile[id] = NoFile

\* C20: after a process death that left an item DOWNLOADING with a partial temp file,
\* a reload of the history and resume_interrupted_downloads(), and with no further call
\* and no failure, the item eventually is COMPLETED, the transfer having continued from
\* the temp file's offset and the destination file having the server's total size.
C20_InterruptedDownloadCompletes ==
    \A id \in Ids : Recovered(id) ~> RecoveryCompleted(id)

\* add, start, one byte of two written, process death, reload,
\* resume_interrupted_downloads(), and the worker has finished the file
C20_Witness ==
    /\ opsLeft = 0
    /\ \E id \in Range(order) :
          /\ RecoveryCompleted(id)
          /\ downloads[id].downloaded_bytes = 1

\* the step of worker w raises inside run(): a Range request at or past the end of the
\* file (416), os.replace of a temp file that is gone, or db.upsert of an item whose row
\* is missing
RaisesInRun(w) ==
    LET wk == workers[w]
        id == wk.item
    IN  \/ wk.pc = "init" /\ tempFile[id] >= FileSize
        \/ wk.pc = "replace" /\ (tempFile[id] = NoFile \/ (hasDb /\ ~db[id].present))
        \/ /\ wk.pc = "write"
           /\ hasDb /\ ~db[id].present
           /\ \/ percentage(wk.downloaded + 1, wk.total) - percentage(wk.downloaded, wk.total) >= 1
              \/ wk.downloaded + 1 = wk.total

\* C21: a step of a worker in which the transfer fails (failed request or read, 416,
\* missing temp file at the rename, rejected upsert) ends that worker; sets the status of
\* its item, when registered, to ERROR; emits status_changed(id, ERROR) for a registered
\* item and then error(id) as the last signals; removes no temp file (the file is only
\* ever renamed by a rename that succeeded); and changes neither the manager's flags, the
\* registry keys, the pool's queue nor the position or flags of any other worker.
C21_FailureBecomesErrorEvent ==
    [][\A w \in Wids :
          (WorkerFail(w) \/ (WorkerStep(w) /\ RaisesInRun(w))) =>
             LET id == workers[w].item
                 n == Len(emitted')
             IN  /\ workers'[w].pc = "done"
                 /\ n >= 1 /\ emitted'[n] = error(id)
                 /\ id \in Range(order) =>
                       /\ downloads'[id].status = ERROR
                       /\ n >= 2 /\ emitted'[n - 1] = status_changed(id, ERROR)
                 /\ IF workers[w].pc = "replace" /\ tempFile[id] # NoFile
                    THEN tempFile'[id] = NoFile /\ finalFile'[id] = tempFile[id]
                    ELSE tempFile'[id] >= tempFile[id]
                 /\ UNCHANGED <<order, mgrFlags, queue>>
                 /\ \A v \in Wids \ {w} :
                       /\ workers'[v].pc = workers[v].pc
                       /\ workers'[v].paused = workers[v].paused
                       /\ workers'[v].cancelled = workers[v].cancelled
                       /\ workers'[v].downloaded = workers[v].downloaded]_vars

\* the read of the second chunk has failed: the worker has ended, its item is ERROR, the
\* ERROR status and the error signal were emitted, the temp file holds the first byte and
\* the worker of another item is still in run()
C21_Witness ==
    \E w, v \in Wids :
        /\ failsLeft = MaxFailures - 1
        /\ workers[w].pc = "done"
        /\ workers[w].item \in Range(order)
        /\ downloads[workers[w].item].status = ERROR
        /\ emitted = <<status_changed(workers[w].item, ERROR), error(workers[w].item)>>
        /\ tempFile[workers[w].item] = 1
        /\ workers[v].item # workers[w].item
        /\ is_running(workers[v])

\* C22: the byte count that the only worker of an item reports and persists is at most
\* its total_bytes once total_bytes > 0, and so is the count of the item's row; and while
\* the item stays DOWNLOADING the worker's count does not decrease.
C22_BytesMonotoneAndBounded ==
    /\ [](/\ \A w \in Wids :
              (SoleWorker(w) /\ workers[w].total > 0)
                  => workers[w].downloaded <= workers[w].total
          /\ \A id \in Ids :
              (db[id].present /\ db[id].total_bytes > 0 /\ Cardinality(LiveWorkers(id)) <= 1)
                  => db[id].downloaded_bytes <= db[id].total_bytes)
    /\ [][\A w \in Wids :
            LET id == workers[w].item
            IN  (/\ SoleWorker(w) /\ w \in DOMAIN workers'
                 /\ id \in Range(order) /\ id \in Range(order')
                 /\ downloads[id].status = DOWNLOADING
                 /\ downloads'[id].status = DOWNLOADING) =>
                   workers'[w].downloaded >= workers[w].downloaded]_vars

\* C23: pause, resume, cancel, restart and delete called with an id that is not a key of
\* the registry change neither the registry, the store, the workers, the pool's queue
\* nor the files, and emit no signal.
C23_UnknownIdIsNoOp ==
    [][\A id \in Ids \ Range(order) :
          (\/ pause(id) \/ resume(id) \/ cancel(id) \/ restart(id)
           \/ \E df \in BOOLEAN : delete(id, df)) =>
             /\ UNCHANGED <<order, downloads, db, workers, queue, files, model_ids, mgrFlags>>
             /\ emitted' = <<>>]_vars

\* three calls have been made, the registry holds item 1 only, whose sole worker is
\* writing its second byte: the third call was made with the transfer under way and
\* ids 2 and 3 unknown
C23_Witness ==
    /\ opsLeft = MaxOps - 3
    /\ order = <<1>>
    /\ Len(workers) = 1
    /\ workers[1].pc = "write" /\ workers[1].downloaded = 1
    /\ downloads[1].status = DOWNLOADING
    /\ downloads[2] = NewItem /\ downloads[3] = NewItem
    /\ emitted = <<>>

\* a list of mappings that each carry a url
ValidInput(download_items) ==
    /\ download_items.is_list
    /\ \A k \in DOMAIN download_items.entries : download_items.entries[k] = "record"

\* C24: add_new_downloads with an argument that is not a list, or a list with an entry
\* that has no url or is no mapping, raises, and leaves the registry, the store and the
\* connected model unchanged and emits no signal.
C24_InvalidAddRaisesAndChangesNothing ==
    [][\A download_items \in Inputs :
          (~ValidInput(download_items) /\ add_new_downloads_of(download_items, FALSE)) =>
             /\ raised'
             /\ UNCHANGED <<order, downloads, db, model_ids, workers, queue>>
             /\ emitted' = <<>>]_vars

\* an add has raised after an earlier add registered item 1, whose worker is queued:
\* the registry still holds item 1 only
C24_Witness ==
    /\ raised
    /\ opsLeft = MaxAddOps - 3
    /\ order = <<1>>
    /\ Len(workers) = 1 /\ workers[1].pc = "queued"
    /\ model_ids = <<1>>
    /\ emitted = <<>>

\* C25: when the batch upsert of an add of n requests fails, no row is written, and the
\* add registers n fresh PENDING records under n distinct locally generated ids, in
\* input order, and emits one downloads_added carrying them all.
C25_FailedUpsertFallsBackToLocalIds ==
    [][\A download_items \in Inputs :
          (ValidInput(download_items) /\ add_new_downloads_of(download_items, TRUE)) =>
             LET n == Len(download_items.entries)
             IN  /\ db' = db
                 /\ \E ids \in [1..n -> Ids] :
                       /\ \A j, k \in 1..n : j < k => ids[j] < ids[k]
                       /\ \A k \in 1..n : ids[k] \in Range(order')
                                              /\ downloads'[ids[k]] = NewItem
                       /\ emitted' = <<added(ids)>>
                       /\ model_ids' = model_ids \o ids]_vars

\* with a store, a batch of two was just added and neither item has a row
C25_Witness ==
    /\ hasDb
    /\ Len(emitted) = 1
    /\ emitted[1].kind = "added"
    /\ Len(emitted[1].ids) = MaxBatch
    /\ \A k \in 1..MaxBatch :
          /\ emitted[1].ids[k] \in Range(order)
          /\ ~db[emitted[1].ids[k]].present

\* the position of a registered id among the registry's keys
IndexIn(ord, id) == CHOOSE k \in DOMAIN ord : ord[k] = id

\* C26: in every reachable registry get_downloads(None) returns all records;
\* get_downloads(s) equals get_downloads([s]); and get_downloads(list) returns each
\* record whose status is in the list once, no other record, in registry insertion order.
C26_GetDownloadsFilters ==
    \A status \in StatusArgs :
        LET r == get_downloads_of(downloads, order, status)
        IN  /\ status.kind = "none" => r = order
            /\ status.kind = "one" =>
                  r = get_downloads_of(downloads, order,
                         [kind |-> "list", one |-> PENDING, list |-> <<status.one>>])
            /\ status.kind = "list" =>
                  /\ Range(r) = {id \in Range(order) :
                                    downloads[id].status \in Range(status.list)}
                  /\ \A j, k \in DOMAIN r :
                        j < k => IndexIn(order, r[j]) < IndexIn(order, r[k])

\* the registry holds a PAUSED, an ERROR and a PENDING item, in that order:
\* get_downloads([ERROR, PAUSED]) returns the first two, in registry order
C26_Witness ==
    /\ Len(order) = 3
    /\ downloads[order[1]].status = PAUSED
    /\ downloads[order[2]].status = ERROR
    /\ downloads[order[3]].status = PENDING
    /\ get_downloads_of(downloads, order,
           [kind |-> "list", one |-> PENDING, list |-> <<ERROR, PAUSED>>])
          = <<order[1], order[2]>>

\* C27: a worker that was in the pause wait when resume_all() was called, whether held
\* by its own pause flag or only by the manager-wide flag, leaves the wait unless it is
\* paused or cancelled again: the pause loop is evaluated again and the worker goes on
\* to write its chunk.
C27_ResumeAllReleasesEveryWaiter ==
    \A w \in 1..MaxWorkerObjs :
        (w \in Wids /\ workers[w].g_resumeAllParked)
            ~> (w \in Wids => ~workers[w].g_resumeAllParked)

\* the status_changed events of item id among the signals evs, in order
StatusEventsOf(evs, id) ==
    SelectSeq(evs, LAMBDA e : e.kind = "status" /\ e.ids = <<id>>)

\* no thread is about to write or emit a status of item id: the caller is not inside a
\* callback of one of its workers, and each of its workers has ended or is in the wait
Quiescent(id) ==
    \A w \in Wids :
        workers[w].item = id =>
            /\ workers[w].cb_pending = ""
            /\ \/ workers[w].pc \in {"done", "dropped"}
               \/ workers[w].pc = "wait" /\ ~workers[w].woken

\* C28: with the caller's thread (pause, resume, cancel) and the worker's thread
\* interleaved, when a step has emitted status_changed for an item and left the item
\* quiescent, the last event emitted for the item carries the status that the
\* registry holds.
C28_LastEventCarriesRegistryStatus ==
    \A id \in Range(order) :
        (Quiescent(id) /\ StatusEventsOf(emitted, id) # <<>>)
            => StatusEventsOf(emitted, id)[Len(StatusEventsOf(emitted, id))].status
                   = downloads[id].status

\* C29: when a call or a worker step has emitted status_changed for an item and the
\* next step, a step of a worker (no further call is made), emits status_changed for
\* the item too, the later event does not repeat the status of the earlier one: the two
\* are consecutive events of the item, and one cancel(id) is announced once.
C29_NoRepeatedStatusEvent ==
    [][\A id \in Ids :
          (/\ opsLeft' = opsLeft
           /\ StatusEventsOf(emitted, id) # <<>>
           /\ StatusEventsOf(emitted', id) # <<>>)
              => StatusEventsOf(emitted', id)[1].status
                     # StatusEventsOf(emitted, id)[Len(StatusEventsOf(emitted, id))].status]_vars

\* C30: an item whose status is COMPLETED stays in the registry with status
\* COMPLETED across every step of pause, resume, cancel, pause_all, resume_all,
\* cancel_all, restart_all, resume_interrupted_downloads, start, add and the workers.
C30_CompletedIsTerminal ==
    [][\A id \in Range(order) :
          downloads[id].status = COMPLETED
              => (id \in Range(order') /\ downloads'[id].status = COMPLETED)]_vars

\* every registered item that has a row in the store d has the registry's status in it
StoreInSync(dls, ord, d) ==
    \A id \in Range(ord) : d[id].present => d[id].status = dls[id].status

\* C31: with the store enabled and registry and store in agreement before the call,
\* when pause_all, resume_all, cancel_all (update_memory_status left at its default) or
\* restart_all returns, the status stored for every item equals the status the registry
\* holds for it.
C31_BulkCallsKeepStoreInSync ==
    [][(/\ hasDb
        /\ StoreInSync(downloads, order, db)
        /\ \/ pause_all
           \/ resume_all
           \/ \E sd \in BOOLEAN : cancel_all(TRUE, sd)
           \/ restart_all)
          => StoreInSync(downloads', order', db')]_vars

\* C32: in every step that emits finished(id), finished is emitted once, by a worker
\* of the item that was past the cancel test after the end of its stream and had not
\* announced before; that worker has ended; the destination file exists and the temp
\* file does not; and, the item being registered, status_changed(id, COMPLETED) comes
\* before finished among the step's signals.
C32_FinishedFollowsRenameAndCompleted ==
    [][\A id \in Ids :
          Emitted(emitted', "finished", id) # {} =>
             /\ Cardinality(Emitted(emitted', "finished", id)) = 1
             /\ finalFile'[id] # NoFile
             /\ tempFile'[id] = NoFile
             /\ finalFile'[id] = tempFile[id]
             /\ \E w \in Wids :
                   /\ workers[w].item = id
                   /\ workers[w].pc = "replace" /\ ~workers[w].g_renamed
                   /\ workers'[w].pc = "done" /\ workers'[w].g_renamed
             /\ id \in Range(order) =>
                   \E k \in DOMAIN emitted' :
                       /\ emitted'[k] = status_changed(id, COMPLETED)
                       /\ \A f \in Emitted(emitted', "finished", id) : k < f]_vars

\* a worker has just renamed its whole file and announced COMPLETED, then finished
C32_Witness ==
    \E w \in Wids :
        /\ workers[w].g_renamed
        /\ workers[w].item \in Range(order)
        /\ emitted = <<status_changed(workers[w].item, COMPLETED), finished(workers[w].item)>>
        /\ finalFile[workers[w].item] = FileSize
        /\ tempFile[workers[w].item] = NoFile

\* C33: a worker whose request is answered has sent Range: bytes=offset- exactly when
\* the temp file existed with size offset > 0, has then opened the file for append and
\* left its offset bytes in place (otherwise it has sent no Range and the file is empty);
\* and when a worker that is the only one its item ever had renames the file, the
\* destination holds the offset plus the bytes the worker received.
C33_ResumeAppendsFromOffset ==
    [][\A w \in Wids :
          LET id == workers[w].item
              offset == IF tempFile[id] > 0 THEN tempFile[id] ELSE 0
          IN  /\ (w <= Len(workers') /\ workers[w].pc = "init" /\ workers'[w].pc = "iter") =>
                    /\ workers'[w].range_from = (IF offset > 0 THEN offset ELSE -1)
                    /\ workers'[w].append = (offset > 0)
                    /\ workers'[w].downloaded = offset
                    /\ tempFile'[id] = offset
              /\ (/\ w <= Len(workers') /\ SoleWorker(w)
                  /\ ~workers[w].g_renamed /\ workers'[w].g_renamed) =>
                    finalFile'[id] = (IF workers[w].range_from > 0
                                      THEN workers[w].range_from ELSE 0)
                                         + workers[w].g_received]_vars

\* a worker that found one byte in the temp file has asked for the rest, received it
\* and renamed the file
C33_Witness ==
    \E w \in Wids :
        /\ SoleWorker(w)
        /\ workers[w].g_renamed
        /\ workers[w].range_from = 1
        /\ workers[w].append
        /\ workers[w].g_received = FileSize - 1
        /\ finalFile[workers[w].item] = FileSize

\* C34: while an item is CANCELLED after cancel(id) reached its current worker (no
\* cancel_all, no shutdown, and no restart or resume since, which would have changed
\* the status), no step of that worker changes the status of the item.
C34_CancelledStaysCancelled ==
    [][\A w \in Wids :
          LET id == workers[w].item
          IN  (/\ opsLeft' = opsLeft /\ order' = order /\ w <= Len(workers')
               /\ id \in Range(order)
               /\ downloads[id].worker = w
               /\ workers[w].cancelled /\ workers[w].g_cancelSeen
               /\ ~workers[w].g_caLive /\ ~is_shutdown
               /\ downloads[id].status = CANCELLED
               /\ workers'[w] # workers[w])
                 => downloads'[id].status = CANCELLED]_vars

\* C35: whenever the only worker an item has had is in the pause wait and has not been
\* woken, the registry status of its item is PAUSED.
C35_WaitingWorkerIsPaused ==
    \A w \in Wids :
        (/\ workers[w].pc = "wait" /\ ~workers[w].woken
         /\ SoleWorker(w)
         /\ workers[w].item \in Range(order))
            => downloads[workers[w].item].status = PAUSED

\* every registered item that is DOWNLOADING has a worker that is queued or running
DownloadingHasLiveWorker(dls, ord, ws) ==
    \A id \in Range(ord) :
        dls[id].status = DOWNLOADING
            => \E w \in DOMAIN ws : ws[w].item = id /\ Live(ws[w])

\* C36: from a state in which every DOWNLOADING item has a live worker (as after
\* resume_interrupted_downloads at start-up), no call of add, start, pause, resume or
\* resume_interrupted_downloads and no step of a worker leads to a state in which some
\* DOWNLOADING item has none; only the end of the process does.
C36_DownloadingHasLiveWorker ==
    [][(DownloadingHasLiveWorker(downloads, order, workers) /\ ~Relaunch)
          => DownloadingHasLiveWorker(downloads', order', workers')]_vars

\* C37: a worker that was in the pause wait, pause_all in force, when resume(id)
\* reached it leaves the wait unless it is paused or cancelled again: it goes on to
\* write its chunk without a resume_all().
C37_ResumeReleasesUnderPauseAll ==
    \A w \in 1..MaxWorkerObjs :
        (w \in Wids /\ workers[w].g_resumedInAll)
            ~> (w \in Wids => ~workers[w].g_resumedInAll)

\* the workers that are running and not held in the pause wait
Transferring ==
    {w \in Running : ~(workers[w].pc = "wait" /\ ~workers[w].woken)}

\* C38: a worker that is queued in the pool for a PENDING item while fewer than
\* max_workers workers are transferring is eventually started by the pool, other items
\* being paused or not.
C38_PausedWorkersFreeTheirSlot ==
    \A w \in 1..MaxWorkerObjs :
        (/\ w \in Wids
         /\ workers[w].pc = "queued"
         /\ workers[w].item \in Range(order)
         /\ downloads[workers[w].item].status = PENDING
         /\ Cardinality(Transferring) < maxThreadCount)
            ~> (w \in Wids => workers[w].pc # "queued")

\* C39: cancel_all() of one manager leaves the item and the worker of the other manager
\* as they were, and the other manager's PENDING item whose worker is queued in the pool
\* is eventually started.
C39_CancelAllSparesOtherManager ==
    /\ [][(\E u \in BOOLEAN, sd \in BOOLEAN : cancel_all(u, sd)) => other' = other]_vars
    /\ (other.pc = "queued" /\ other.status = PENDING) ~> (other.pc \notin {"queued", "dropped"})

\* every registered item is COMPLETED, no worker is left and no signal is queued for the
\* progress bar
AllFinished ==
    /\ session.attached
    /\ order # <<>>
    /\ \A id \in Range(order) : downloads[id].status = COMPLETED
    /\ \A w \in Wids : ~Live(workers[w])
    /\ session.inbox = <<>>

SessionEmpty == session.completed_files = 0 /\ session.total_files = 0

\* C40: once every item of the session has finished (every registered item COMPLETED,
\* every worker ended, every signal delivered), the progress bar is eventually reset to
\* the empty session, completed = 0 and total = 0, unless a later call takes an item out
\* of COMPLETED, whatever pause, resume, cancel, restart and failure steps came before.
C40_FinishedSessionResets ==
    AllFinished ~> (SessionEmpty \/ ~AllFinished)

====
